---- MODULE Spec2Model ----
(***************************************************************************)
(* Model of adk-agentic-logging: the request-scoped context store          *)
(* (core/context.py), the middleware adapters that emit one record per     *)
(* request (integrations/*.py) and the runner instrumentation              *)
(* (adk/instrumentation.py).                                               *)
(*                                                                         *)
(* Python strings are sequences of one-character strings, Python dicts are *)
(* objects of a heap (so that aliasing between a copied top-level dict and *)
(* its nested dicts is visible), and the ContextVar holds one reference    *)
(* per asyncio task / thread.                                              *)
(***************************************************************************)
EXTENDS Integers, Sequences, FiniteSets, TLC

VARIABLES
    heap,       \* object id -> dict (key string -> value)
    var,        \* task -> object id held by _log_context in that task, 0 = None
    spawned,    \* tasks that exist
    spanObjs,   \* span id -> span object
    curSpan,    \* task -> current span id in the task's OTel context, 0 = INVALID_SPAN
    ops,        \* number of API calls made so far (bounded)
    last,       \* history: the most recent call
    own,        \* history: task -> what the task itself last wrote under "id"
    cleared,    \* history: task -> the task has called clear()
    fresh,      \* history: task -> the task cleared and has not written since
    req,        \* the request being served by a middleware adapter
    stdout,     \* lines written by print()
    logRecords, \* records received by the "adk.agentic" logger
    run,        \* the call of a function decorated with instrument_runner
    otel        \* the tracer providers, their span processors and what was exported,
                \* and the handlers of the root logger

ctxVars == <<heap, var, spawned, spanObjs, curSpan>>
histVars == <<ops, last, own, cleared, fresh>>
httpVars == <<req, stdout, logRecords>>
runVars == <<run, otel>>
vars == <<ctxVars, histVars, httpVars, runVars>>

---------------------------------------------------------------------------
(* Bounds *)
NumTasks == 2
MaxOps == 3
MaxRequests == 1

Tasks == 1..NumTasks
None == 0

---------------------------------------------------------------------------
(* Values.  Every value is a record [k, i, s, m]:                          *)
(*   k = "int"  : integer i                                                *)
(*   k = "str"  : string s (sequence of characters)                        *)
(*   k = "obj"  : an object json cannot encode (identity i)                *)
(*   k = "dict" : reference to heap object i                               *)
(*   k = "map"  : a dict written out as a tree, m : key -> value           *)
(*   k = "none" : no value                                                 *)
IntV(n) == [k |-> "int", i |-> n, s |-> <<>>, m |-> <<>>]
StrV(chars) == [k |-> "str", i |-> 0, s |-> chars, m |-> <<>>]
Obj(n) == [k |-> "obj", i |-> n, s |-> <<>>, m |-> <<>>]
Ref(o) == [k |-> "dict", i |-> o, s |-> <<>>, m |-> <<>>]
Map(f) == [k |-> "map", i |-> 0, s |-> <<>>, m |-> f]
ListV(seq) == [k |-> "list", i |-> 0, s |-> <<>>, m |-> seq]
NoVal == [k |-> "none", i |-> 0, s |-> <<>>, m |-> <<>>]
EmptyDict == <<>>

\* d[key] = v on a dict
Put(d, key, v) == [x \in (DOMAIN d) \cup {key} |-> IF x = key THEN v ELSE d[x]]
\* d.pop(key) / del d[key]
Del(d, key) == [x \in (DOMAIN d) \ {key} |-> d[x]]
\* {**a, **b}
Merge(a, b) == [x \in (DOMAIN a) \cup (DOMAIN b) |-> IF x \in DOMAIN b THEN b[x] ELSE a[x]]

---------------------------------------------------------------------------
(* Strings *)
Dot == "."
K_id == <<"i", "d">>
K_a == <<"a">>
K_ab == <<"a", ".", "b">>
K_ac == <<"a", ".", "c">>
K_abc == <<"a", ".", "b", ".", "c">>
K_a__b == <<"a", ".", ".", "b">>
K_error == <<"e", "r", "r", "o", "r">>
K_severity == <<"s", "e", "v", "e", "r", "i", "t", "y">>
K_type == <<"t", "y", "p", "e">>
K_message == <<"m", "e", "s", "s", "a", "g", "e">>
K_module == <<"m", "o", "d", "u", "l", "e">>
K_timestamp == <<"t", "i", "m", "e", "s", "t", "a", "m", "p">>
S_ERROR == <<"E", "R", "R", "O", "R">>
S_INFO == <<"I", "N", "F", "O">>
ReservedPrefix ==
    <<"l", "o", "g", "g", "i", "n", "g", ".", "g", "o", "o", "g", "l", "e",
      "a", "p", "i", "s", ".", "c", "o", "m">>
K_trace == ReservedPrefix \o <<"/", "t", "r", "a", "c", "e">>
K_spanId == ReservedPrefix \o <<"/", "s", "p", "a", "n", "I", "d">>

\* "." in key
HasDot(key) == \E n \in 1..Len(key) : key[n] = Dot

\* key.startswith(prefix)
StartsWith(key, prefix) ==
    /\ Len(key) >= Len(prefix)
    /\ SubSeq(key, 1, Len(prefix)) = prefix

\* key.split(".")
RECURSIVE Split(_)
Split(key) ==
    IF ~HasDot(key) THEN <<key>>
    ELSE LET n == CHOOSE n \in 1..Len(key) :
                      key[n] = Dot /\ \A j \in 1..(n - 1) : key[j] # Dot
         IN <<SubSeq(key, 1, n - 1)>> \o Split(SubSeq(key, n + 1, Len(key)))

\* str(n) for a non-negative int
RECURSIVE Digits(_)
Digits(n) == IF n < 10 THEN <<ToString(n)>> ELSE Digits(n \div 10) \o <<ToString(n % 10)>>

\* F applied to the value of x (x is evaluated once)
Let(x, F(_)) == CHOOSE r \in {F(y) : y \in {x}} : TRUE

---------------------------------------------------------------------------
(* Heap *)
NewId(h) ==
    CHOOSE n \in 1..(Cardinality(DOMAIN h) + 1) :
        n \notin DOMAIN h /\ \A j \in 1..(n - 1) : j \in DOMAIN h

Ext(h, o, d) == [x \in (DOMAIN h) \cup {o} |-> IF x = o THEN d ELSE h[x]]

Kids(h, o) == {h[o][key].i : key \in {x \in DOMAIN h[o] : h[o][x].k = "dict"}}

RECURSIVE Reach(_, _, _)
Reach(h, F, S) ==
    IF F = {} THEN S
    ELSE LET S2 == S \cup F
         IN Reach(h, (UNION {Kids(h, o) : o \in F}) \ S2, S2)

\* Objects no task can reach any more are dropped (Python's reference counting).
Collect(h, v) ==
    LET live == Reach(h, {v[t] : t \in DOMAIN v} \ {None}, {})
    IN [o \in live |-> h[o]]

\* The dict at object o written out as a tree.
RECURSIVE Deep(_, _)
Deep(h, o) ==
    Map([key \in DOMAIN h[o] |->
            IF h[o][key].k = "dict" THEN Deep(h, h[o][key].i) ELSE h[o][key]])

\* Build the heap objects of a dict literal; returns [h, val].
RECURSIVE Alloc(_, _)
RECURSIVE AllocKeys(_, _, _, _)
AllocKeys(h0, o, f, keys) ==
    Let(h0, LAMBDA h :
        IF keys = {} THEN h
        ELSE Let(CHOOSE x \in keys : TRUE, LAMBDA key :
             Let(Alloc(h, f[key]), LAMBDA a :
                 AllocKeys([a.h EXCEPT ![o] = Put(a.h[o], key, a.val)], o, f, keys \ {key}))))
Alloc(h0, tree) ==
    Let(h0, LAMBDA h :
        IF tree.k # "map" THEN [h |-> h, val |-> tree]
        ELSE Let(NewId(h), LAMBDA o :
                 [h |-> AllocKeys(Ext(h, o, EmptyDict), o, tree.m, DOMAIN tree.m),
                  val |-> Ref(o)]))

\* tree[p1][p2]...[pn], NoVal when the path is absent
RECURSIVE TreeGet(_, _)
TreeGet(tree, parts) ==
    IF Len(parts) = 0 THEN tree
    ELSE IF tree.k = "map" /\ parts[1] \in DOMAIN tree.m
         THEN TreeGet(tree.m[parts[1]], Tail(parts))
         ELSE NoVal

---------------------------------------------------------------------------
(* Spans (opentelemetry).  A span object is                                *)
(*   [sdk, valid, ended, ends, attrs]: sdk = FALSE is a NonRecordingSpan.  *)
(*   status is "UNSET" or "ERROR"; tid and sid are the ids of its context. *)
InvalidSpan ==
    [sdk |-> FALSE, valid |-> FALSE, ended |-> FALSE, ends |-> 0, attrs |-> <<>>,
     status |-> "UNSET", tid |-> 0, sid |-> 0]

\* trace.get_current_span() in task t
CurrentSpan(w, t) == IF w.cur[t] = None THEN InvalidSpan ELSE w.spans[w.cur[t]]

IsRecording(sp) == sp.sdk /\ ~sp.ended

\* span.set_attribute(name, value) on span object sp (ignored once ended, and
\* by a NonRecordingSpan)
SetAttrOn(w0, sp, name, value) ==
    Let(w0, LAMBDA w :
    IF sp # None /\ IsRecording(w.spans[sp])
    THEN [w EXCEPT !.spans[sp].attrs = Put(@, name, value)]
    ELSE w)

\* span.set_attribute(name, value) on the current span of task t
SetAttribute(w, t, name, value) == SetAttrOn(w, w.cur[t], name, value)

S_None == <<"N", "o", "n", "e">>
S_object == <<"<", "o", "b", "j", "e", "c", "t", ">">>
S_dict == <<"{", "}">>
S_list == <<"[", "]">>

\* str(value)
StrOf(h, v) ==
    CASE v.k = "int" -> StrV(Digits(v.i))
      [] v.k = "str" -> v
      [] v.k = "obj" -> StrV(S_object)
      [] v.k = "dict" -> [k |-> "str", i |-> 0, s |-> S_dict, m |-> Deep(h, v.i).m]
      [] v.k = "list" -> [k |-> "str", i |-> 0, s |-> S_list, m |-> v.m]
      [] OTHER -> StrV(S_None)

---------------------------------------------------------------------------
(* core/context.py: LogContext.  A world w is [heap, var, spans, cur].     *)
World == [heap |-> heap, var |-> var, spans |-> spanObjs, cur |-> curSpan]

\* a module-level global instead of a ContextVar: one value for every task
SetVarGlobal(v, t, x) == [u \in DOMAIN v |-> x]

\* _log_context.set(x) in task t
SetVar(v, t, x) == [v EXCEPT ![t] = x]

\* LogContext._get_ctx
GetCtx(w0, t) ==
    Let(w0, LAMBDA w :
    IF w.var[t] = None
    THEN LET o == NewId(w.heap)
         IN [w EXCEPT !.heap = Ext(@, o, EmptyDict), !.var = SetVar(@, t, o)]
    ELSE w)

\* the final assignment made on the top-level dict instead of the innermost one
SetPathNoDescent(h, d, parts, value) == [h EXCEPT ![d] = Put(@, parts[Len(parts)], value)]

\* a descent that puts a new dict under every part, whatever is there
RECURSIVE SetPathFresh(_, _, _, _)
SetPathFresh(h0, d, parts, value) ==
    Let(h0, LAMBDA h :
        IF Len(parts) = 1 THEN [h EXCEPT ![d] = Put(@, parts[1], value)]
        ELSE Let(NewId(h), LAMBDA n :
                 SetPathFresh([Ext(h, n, EmptyDict) EXCEPT ![d] = Put(@, parts[1], Ref(n))],
                              n, Tail(parts), value)))

\* the loop over parts[:-1] and the final d[parts[-1]] = value
RECURSIVE SetPath(_, _, _, _)
SetPath(h0, d, parts, value) ==
    Let(h0, LAMBDA h :
        IF Len(parts) = 1 THEN [h EXCEPT ![d] = Put(@, parts[1], value)]
        ELSE IF parts[1] \in DOMAIN h[d] /\ h[d][parts[1]].k = "dict"
             THEN SetPath(h, h[d][parts[1]].i, Tail(parts), value)
             ELSE Let(NewId(h), LAMBDA n :
                      SetPath([Ext(h, n, EmptyDict) EXCEPT ![d] = Put(@, parts[1], Ref(n))],
                              n, Tail(parts), value)))

\* ctx = self._get_ctx().copy()
CopyCtx(h, o, n) == Ext(h, n, h[o])

\* a flattening that stops at the first level: one attribute per entry of
\* the dict, nested dicts written as their string conversion
RECURSIVE ShallowKeys(_, _, _, _, _)
ShallowKeys(w0, t, prefix, o, keys) ==
    Let(w0, LAMBDA w :
        IF keys = {} THEN w
        ELSE Let(CHOOSE x \in keys : TRUE, LAMBDA k2 :
                 ShallowKeys(SetAttribute(w, t, prefix \o <<Dot>> \o k2, StrOf(w.heap, w.heap[o][k2])),
                             t, prefix, o, keys \ {k2})))
FlattenSetShallow(w0, t, prefix, v) ==
    Let(w0, LAMBDA w :
    IF v.k = "dict"
    THEN ShallowKeys(w, t, prefix, v.i, DOMAIN w.heap[v.i])
    ELSE SetAttribute(w, t, prefix, StrOf(w.heap, v)))

\* _flatten_set(prefix, v)
RECURSIVE FlattenSet(_, _, _, _)
RECURSIVE FlattenKeys(_, _, _, _, _)
FlattenKeys(w0, t, prefix, o, keys) ==
    Let(w0, LAMBDA w :
        IF keys = {} THEN w
        ELSE Let(CHOOSE x \in keys : TRUE, LAMBDA k2 :
                 FlattenKeys(FlattenSet(w, t, prefix \o <<Dot>> \o k2, w.heap[o][k2]),
                             t, prefix, o, keys \ {k2})))
FlattenSet(w0, t, prefix, v) ==
    Let(w0, LAMBDA w :
    IF v.k = "dict"
    THEN FlattenKeys(w, t, prefix, v.i, DOMAIN w.heap[v.i])
    ELSE SetAttribute(w, t, prefix, StrOf(w.heap, v)))

\* the span mirror at the end of add
MirrorAdd(w0, t, key, value) ==
    Let(w0, LAMBDA w :
        IF IsRecording(CurrentSpan(w, t))
        THEN FlattenSet(w, t, key, value)
        ELSE w)

\* an add that nests every dotted key, reserved prefix or not
DoAddSplitsReserved(w0, t, key, value) ==
    Let(GetCtx(w0, t), LAMBDA w1 :
    Let(NewId(w1.heap), LAMBDA c :
    Let(CopyCtx(w1.heap, w1.var[t], c), LAMBDA h1 :
    Let(IF HasDot(key)
        THEN SetPath(h1, c, Split(key), value)
        ELSE [h1 EXCEPT ![c] = Put(@, key, value)], LAMBDA h2 :
        MirrorAdd([w1 EXCEPT !.heap = h2, !.var = SetVar(@, t, c)], t, key, value)))))

\* an add that merges a dict value into the dict the key already holds
DoAddMerges(w0, t, key, value) ==
    Let(GetCtx(w0, t), LAMBDA w1 :
    Let(NewId(w1.heap), LAMBDA c :
    Let(CopyCtx(w1.heap, w1.var[t], c), LAMBDA h1 :
    Let(IF HasDot(key) /\ ~StartsWith(key, ReservedPrefix)
        THEN SetPath(h1, c, Split(key), value)
        ELSE IF value.k = "dict" /\ key \in DOMAIN h1[c] /\ h1[c][key].k = "dict"
             THEN [h1 EXCEPT ![h1[c][key].i] = Merge(@, h1[value.i])]
             ELSE [h1 EXCEPT ![c] = Put(@, key, value)], LAMBDA h2 :
        MirrorAdd([w1 EXCEPT !.heap = h2, !.var = SetVar(@, t, c)], t, key, value)))))

\* LogContext.add
DoAdd(w0, t, key, value) ==
    Let(GetCtx(w0, t), LAMBDA w1 :
    Let(NewId(w1.heap), LAMBDA c :
    Let(CopyCtx(w1.heap, w1.var[t], c), LAMBDA h1 :
    Let(IF HasDot(key) /\ ~StartsWith(key, ReservedPrefix)
        THEN SetPath(h1, c, Split(key), value)
        ELSE [h1 EXCEPT ![c] = Put(@, key, value)], LAMBDA h2 :
        MirrorAdd([w1 EXCEPT !.heap = h2, !.var = SetVar(@, t, c)], t, key, value)))))

\* add called with a literal (a scalar, or a dict built by the caller)
DoAddTree(w0, t, key, tree) ==
    Let(w0, LAMBDA w :
    Let(Alloc(w.heap, tree), LAMBDA a :
        DoAdd([w EXCEPT !.heap = a.h], t, key, a.val)))

\* value[:n] + "..." when len(value) > n
Snippet(chars, n) ==
    IF Len(chars) > n THEN SubSeq(chars, 1, n) \o <<".", ".", ".">> ELSE chars

\* LogContext.add_content
DoAddContent(w0, t, key, tree, n) ==
    Let(DoAddTree(w0, t, key, tree), LAMBDA w1 :
        IF CurrentSpan(w1, t).valid /\ tree.k = "str"
        THEN SetAttribute(w1, t, key, StrV(Snippet(tree.s, n)))
        ELSE w1)

\* LogContext.enrich: kwargs is a sequence of <<key, tree>>
RECURSIVE DoEnrich(_, _, _)
DoEnrich(w, t, kwargs) ==
    IF Len(kwargs) = 0 THEN w
    ELSE DoEnrich(DoAddTree(w, t, kwargs[1][1], kwargs[1][2]), t, Tail(kwargs))

\* a clear that leaves the ContextVar as it is
DoClearKeeps(w, t) == w

\* LogContext.clear
DoClear(w, t) == [w EXCEPT !.var = SetVar(@, t, None)]

\* LogContext.get_all (the dict returned is w'.heap[w'.var[t]])
DoGetAll(w, t) == GetCtx(w, t)

\* error_info of record_exception
ErrorInfo(exc) ==
    Map([x \in {K_type, K_message, K_module} |->
            IF x = K_type THEN StrV(exc.cls)
            ELSE IF x = K_message THEN StrV(exc.msg)
            ELSE StrV(exc.module)])

\* record_exception without the severity marker
DoRecordExceptionNoSeverity(w, t, exc) == DoAddTree(w, t, K_error, ErrorInfo(exc))

\* LogContext.record_exception
DoRecordException(w, t, exc) ==
    DoAddTree(DoAddTree(w, t, K_error, ErrorInfo(exc)), t, K_severity, StrV(S_ERROR))

\* What get_all() returns in task t, written out as a tree.
View(h, v, t) == IF v[t] = None THEN Map(EmptyDict) ELSE Deep(h, v[t])

---------------------------------------------------------------------------
(* Inputs *)
S_x == <<"x">>
S_ValueError == <<"V", "a", "l", "u", "e", "E", "r", "r", "o", "r">>
S_RuntimeError == <<"R", "u", "n", "t", "i", "m", "e", "E", "r", "r", "o", "r">>
S_builtins == <<"b", "u", "i", "l", "t", "i", "n", "s">>
S_CancelledError == <<"C", "a", "n", "c", "e", "l", "l", "e", "d", "E", "r", "r", "o", "r">>
S_asyncio == <<"a", "s", "y", "n", "c", "i", "o", ".", "e", "x", "c", "e", "p", "t", "i", "o", "n", "s">>

\* An exception object: class name, module of the class, str(exc), and whether
\* the class derives from Exception (CancelledError derives from BaseException).
ValueErrorX == [cls |-> S_ValueError, module |-> S_builtins, msg |-> S_x, isException |-> TRUE]
RuntimeErrorEmpty == [cls |-> S_RuntimeError, module |-> S_builtins, msg |-> <<>>, isException |-> TRUE]
Cancelled == [cls |-> S_CancelledError, module |-> S_asyncio, msg |-> <<>>, isException |-> FALSE]
NoExc == [cls |-> <<>>, module |-> <<>>, msg |-> <<>>, isException |-> FALSE]
Exceptions == {ValueErrorX, RuntimeErrorEmpty, Cancelled}

DictB1 == Map([x \in {<<"b">>} |-> IntV(1)])
TaskKeys == {K_id, K_a, K_ab}
StoreKeys == {K_a, K_ab, K_abc, K_a__b, K_error, K_severity, K_trace}
StoreValues == {IntV(7), DictB1}
DefaultSnippetLength == 50

NoCall == [t |-> 0, op |-> "none", key |-> <<>>, val |-> NoVal, exc |-> NoExc]
Call(t, op, key, val, exc) == [t |-> t, op |-> op, key |-> key, val |-> val, exc |-> exc]

\* what the task's own write of key does to its record of "id"
OwnAfter(o, wasCleared, key, tree) ==
    IF key = K_id
    THEN (IF wasCleared /\ tree.k = "int" THEN tree ELSE NoVal)
    ELSE IF HasDot(key) /\ ~StartsWith(key, ReservedPrefix) /\ Split(key)[1] = K_id
         THEN NoVal
         ELSE o

\* no request yet (quota is the number of requests the thread will serve)
Idle ==
    [adapter |-> "none", pc |-> "idle", n |-> 0, span |-> None, pid |-> <<>>,
     handlerExc |-> NoExc, propagated |-> NoExc, emitted |-> 0, quota |-> MaxRequests]

\* a runner without agent (the fields are those of Agent below)
NoAgent ==
    [name |-> <<>>, modelKind |-> "none", model_name |-> <<>>, tempAt |-> "none",
     temperature |-> NoVal]

\* opentelemetry and logging as imported: no provider installed (global 0 is
\* the proxy provider), no span open, nothing queued or exported, no handler
\* on the root logger, no record logged
NoOtel ==
    [providers |-> <<>>, global |-> 0, open |-> [p |-> 0, sp |-> None, attrs |-> <<>>],
     queue |-> <<>>, exported |-> <<>>, spans |-> 0, handlers |-> <<>>, records |-> <<>>]

\* no decorated function called yet
NoRun ==
    [pc |-> "idle", mode |-> "none", span |-> None, total |-> 0, tools |-> <<>>,
     agents |-> {}, text |-> <<>>, raised |-> NoExc,
     yielded |-> 0, reported |-> 0, said |-> <<>>, prev |-> None, agent |-> NoAgent,
     seen |-> NoExc, gave |-> 0]

---------------------------------------------------------------------------
(* The context store used by concurrent tasks *)
Init ==
    /\ heap = <<>>
    /\ var = [t \in Tasks |-> None]
    /\ spawned = {1}
    /\ spanObjs = <<>>
    /\ curSpan = [t \in Tasks |-> None]
    /\ ops = 0
    /\ last = NoCall
    /\ own = [t \in Tasks |-> NoVal]
    /\ cleared = [t \in Tasks |-> FALSE]
    /\ fresh = [t \in Tasks |-> FALSE]
    /\ req = Idle
    /\ stdout = <<>>
    /\ logRecords = <<>>
    /\ run = NoRun
    /\ otel = NoOtel

\* the world after a call, with unreachable dicts dropped
Commit(w0) ==
    \E w \in {w0} :
        /\ heap' = Collect(w.heap, w.var)
        /\ var' = w.var
        /\ spanObjs' = w.spans
        /\ curSpan' = w.cur

Tick == ops' = ops + 1

CanCall(t) == t \in spawned /\ ops < MaxOps

\* asyncio.create_task / gather: the new task runs in a copy of the parent's
\* context, which holds the same dict and span objects
Spawn(p, c) ==
    /\ p \in spawned
    /\ c \notin spawned
    /\ c = Cardinality(spawned) + 1
    /\ spawned' = spawned \cup {c}
    /\ var' = SetVar(var, c, var[p])
    /\ curSpan' = [curSpan EXCEPT ![c] = curSpan[p]]
    /\ last' = Call(p, "spawn", <<>>, NoVal, NoExc)
    /\ UNCHANGED <<heap, spanObjs, ops, own, cleared, fresh, httpVars, runVars>>

Clear(t) ==
    /\ CanCall(t)
    /\ Tick
    /\ UNCHANGED <<httpVars, runVars>>
    /\ Commit(DoClear(World, t))
    /\ last' = Call(t, "clear", <<>>, NoVal, NoExc)
    /\ own' = [own EXCEPT ![t] = NoVal]
    /\ cleared' = [cleared EXCEPT ![t] = TRUE]
    /\ fresh' = [fresh EXCEPT ![t] = TRUE]
    /\ UNCHANGED spawned

GetAll(t) ==
    /\ CanCall(t)
    /\ Tick
    /\ UNCHANGED <<httpVars, runVars>>
    /\ Commit(DoGetAll(World, t))
    /\ last' = Call(t, "get_all", <<>>, NoVal, NoExc)
    /\ UNCHANGED <<spawned, own, cleared, fresh>>

Add(t, key, tree) ==
    /\ CanCall(t)
    /\ Tick
    /\ UNCHANGED <<httpVars, runVars>>
    /\ Commit(DoAddTree(World, t, key, tree))
    /\ last' = Call(t, "add", key, tree, NoExc)
    /\ own' = [own EXCEPT ![t] = OwnAfter(@, cleared[t], key, tree)]
    /\ fresh' = [fresh EXCEPT ![t] = FALSE]
    /\ UNCHANGED <<spawned, cleared>>

\* the worker of test_context_isolation up to its first await:
\* log_ctx.clear(); log_ctx.add("id", worker_id)
WorkerStart(t) ==
    /\ CanCall(t)
    /\ Tick
    /\ UNCHANGED <<httpVars, runVars>>
    /\ Commit(DoAddTree(DoClear(World, t), t, K_id, IntV(t)))
    /\ last' = Call(t, "add", K_id, IntV(t), NoExc)
    /\ own' = [own EXCEPT ![t] = IntV(t)]
    /\ cleared' = [cleared EXCEPT ![t] = TRUE]
    /\ fresh' = [fresh EXCEPT ![t] = FALSE]
    /\ UNCHANGED spawned

AddContent(t, key, tree) ==
    /\ CanCall(t)
    /\ Tick
    /\ UNCHANGED <<httpVars, runVars>>
    /\ Commit(DoAddContent(World, t, key, tree, DefaultSnippetLength))
    /\ last' = Call(t, "add_content", key, tree, NoExc)
    /\ own' = [own EXCEPT ![t] = OwnAfter(@, cleared[t], key, tree)]
    /\ fresh' = [fresh EXCEPT ![t] = FALSE]
    /\ UNCHANGED <<spawned, cleared>>

Enrich(t, k1, v1, k2, v2) ==
    /\ CanCall(t)
    /\ Tick
    /\ UNCHANGED <<httpVars, runVars>>
    /\ Commit(DoEnrich(World, t, <<<<k1, v1>>, <<k2, v2>>>>))
    /\ last' = Call(t, "enrich", <<>>,
                    Map([x \in {k1, k2} |-> IF x = k1 THEN v1 ELSE v2]), NoExc)
    /\ own' = [own EXCEPT ![t] = OwnAfter(OwnAfter(@, cleared[t], k1, v1), cleared[t], k2, v2)]
    /\ fresh' = [fresh EXCEPT ![t] = FALSE]
    /\ UNCHANGED <<spawned, cleared>>

RecordException(t, exc) ==
    /\ CanCall(t)
    /\ Tick
    /\ UNCHANGED <<httpVars, runVars>>
    /\ Commit(DoRecordException(World, t, exc))
    /\ last' = Call(t, "record_exception", <<>>, NoVal, exc)
    /\ fresh' = [fresh EXCEPT ![t] = FALSE]
    /\ UNCHANGED <<spawned, own, cleared>>

Next ==
    \/ \E p \in Tasks, c \in Tasks : Spawn(p, c)
    \/ \E t \in Tasks : WorkerStart(t)
    \/ \E t \in Tasks : Clear(t)
    \/ \E t \in Tasks : GetAll(t)
    \/ \E t \in Tasks, key \in TaskKeys : Add(t, key, IntV(t))
    \/ \E t \in Tasks : AddContent(t, K_ac, StrV(S_x))
    \/ \E t \in Tasks : Enrich(t, K_a, IntV(7), K_ab, IntV(t))
    \/ \E t \in Tasks : RecordException(t, ValueErrorX)

Spec == Init /\ [][Next]_vars

---------------------------------------------------------------------------
(* The context store in one execution, with every shape of key and value *)
NextStore ==
    \/ Clear(1)
    \/ GetAll(1)
    \/ \E key \in StoreKeys, tree \in StoreValues : Add(1, key, tree)
    \/ \E key \in {K_ac, K_a} : AddContent(1, key, StrV(S_x))
    \/ Enrich(1, K_a, IntV(7), K_ab, DictB1)
    \/ \E exc \in Exceptions : RecordException(1, exc)

SpecStore == Init /\ [][NextStore]_vars

---------------------------------------------------------------------------
(* Claims about the context store *)
WriteOps == {"add", "add_content", "enrich", "record_exception"}
Bucket(t) == View(heap, var, t)

\* C1: in every reachable state, a task that called clear() and then
\* add("id", N) with its own N reads back id = N from get_all(), whatever the
\* other tasks did in between.
C1_OwnIdKept ==
    \A t \in spawned : own[t].k # "none" => TreeGet(Bucket(t), <<K_id>>) = own[t]

\* two tasks have each cleared and added their own id, and one reads get_all()
C1_Witness ==
    /\ own[1] = IntV(1)
    /\ own[2] = IntV(2)
    /\ last.op = "get_all"

\* C2: a write (add, add_content, enrich, record_exception) made by one task
\* leaves what get_all() returns in every other task unchanged, for top-level
\* and for dotted keys, also when the task was spawned from a populated one.
C2_NoCrossTaskWrites ==
    [][\A u \in spawned :
          (last'.op \in WriteOps /\ last'.t # u)
              => View(heap', var', u) = View(heap, var, u)]_vars

\* C3: immediately after add(k, v) with a dotted key outside the reserved
\* prefix, get_all()[p1][p2]...[pn] = v.
C3_DottedAddStored ==
    (last.op = "add" /\ HasDot(last.key) /\ ~StartsWith(last.key, ReservedPrefix))
        => TreeGet(Bucket(last.t), Split(last.key)) = last.val

\* add("a.b.c", {...}) on a bucket that already held something
C3_Witness ==
    /\ last.op = "add"
    /\ last.key = K_abc
    /\ last.val = DictB1
    /\ TreeGet(Bucket(1), <<K_a, <<>>, <<"b">>>>) = IntV(7)

\* C14: add(k, v) with a key that starts with "logging.googleapis.com" stores
\* v under the whole key k as a single top-level bucket entry and creates no
\* nested containers, even though k contains dots: the bucket after the call
\* is the bucket before it with the one entry k set to v.
C14_ReservedKeyFlat ==
    [][(last'.op = "add" /\ StartsWith(last'.key, ReservedPrefix)) =>
          View(heap', var', last'.t) = Map(Put(Bucket(last'.t).m, last'.key, last'.val))]_vars

\* add("logging.googleapis.com/trace", 7) on a bucket that held other keys
C14_Witness ==
    /\ last.op = "add" /\ last.key = K_trace /\ HasDot(last.key)
    /\ K_trace \in DOMAIN Bucket(1).m /\ Bucket(1).m[K_trace] = IntV(7)
    /\ K_a \in DOMAIN Bucket(1).m

\* the paths of the entries of a bucket, nested entries included
RECURSIVE Paths(_)
Paths(tree) ==
    IF tree.k # "map" THEN {<<>>}
    ELSE {<<>>} \cup UNION {{<<key>> \o p : p \in Paths(tree.m[key])} : key \in DOMAIN tree.m}

IsPrefix(p, q) == Len(p) <= Len(q) /\ SubSeq(q, 1, Len(p)) = p

\* the path add writes for a key
WrittenPath(key) ==
    IF HasDot(key) /\ ~StartsWith(key, ReservedPrefix) THEN Split(key) ELSE <<key>>

\* the keys a call of add, add_content or enrich writes
WrittenKeys(call) == IF call.op = "enrich" THEN DOMAIN call.val.m ELSE {call.key}

\* C27: add(k, v) and enrich(...) leave unchanged every bucket entry whose
\* path is neither a prefix of nor prefixed by a written key; in particular,
\* sibling entries placed under a shared parent by earlier dotted adds are
\* all preserved.
C27_AddFrame ==
    [][last'.op \in {"add", "add_content", "enrich"} =>
          \A p \in Paths(Bucket(last'.t)) :
              (\A key \in WrittenKeys(last') :
                   ~IsPrefix(p, WrittenPath(key)) /\ ~IsPrefix(WrittenPath(key), p))
                  => TreeGet(View(heap', var', last'.t), p) = TreeGet(Bucket(last'.t), p)]_vars

\* add("a.b", 7) on a bucket that held a.c from an earlier dotted write and an
\* error record: both are still there
C27_Witness ==
    /\ last.op = "add" /\ last.key = K_ab /\ last.val = IntV(7)
    /\ TreeGet(Bucket(1), <<K_a, <<"c">>>>) = StrV(S_x)
    /\ TreeGet(Bucket(1), <<K_a, <<"b">>>>) = IntV(7)
    /\ TreeGet(Bucket(1), <<K_error, K_type>>) = StrV(S_ValueError)

\* C4: from clear() until the task's next write, get_all() in that task
\* returns an empty bucket.
C4_ClearEmpties ==
    \A t \in spawned : fresh[t] => Bucket(t) = Map(EmptyDict)

\* a task wrote, cleared and then called get_all()
C4_Witness ==
    /\ fresh[1]
    /\ last = Call(1, "get_all", <<>>, NoVal, NoExc)
    /\ var[1] # None
    /\ ops >= 3

\* C5: immediately after record_exception(exc) the bucket holds error.type,
\* error.message and error.module of exc and severity "ERROR".
C5_ExceptionRecorded ==
    last.op = "record_exception" =>
        /\ TreeGet(Bucket(last.t), <<K_error, K_type>>) = StrV(last.exc.cls)
        /\ TreeGet(Bucket(last.t), <<K_error, K_message>>) = StrV(last.exc.msg)
        /\ TreeGet(Bucket(last.t), <<K_error, K_module>>) = StrV(last.exc.module)
        /\ TreeGet(Bucket(last.t), <<K_severity>>) = StrV(S_ERROR)

\* record_exception(ValueError("x")) on a bucket that already held an entry
C5_Witness ==
    /\ last.op = "record_exception"
    /\ last.exc = ValueErrorX
    /\ ops > 1
    /\ TreeGet(Bucket(1), <<K_a>>) # NoVal

---------------------------------------------------------------------------
(* Middleware adapters: integrations/fastapi.py, flask.py, django.py *)
K_http == <<"h", "t", "t", "p">>
K_method == <<"m", "e", "t", "h", "o", "d">>
K_path == <<"p", "a", "t", "h">>
K_status == <<"s", "t", "a", "t", "u", "s">>
K_status_code == <<"s", "t", "a", "t", "u", "s", "_", "c", "o", "d", "e">>
K_duration_ms == <<"d", "u", "r", "a", "t", "i", "o", "n", "_", "m", "s">>
S_GET == <<"G", "E", "T">>
S_slash_t == <<"/", "t">>
S_RequestProcessed == <<"R", "e", "q", "u", "e", "s", "t", " ", "p", "r", "o", "c", "e", "s", "s", "e", "d">>
S_now == <<"2", "0", "2", "6", "-", "0", "1", "-", "0", "1", "T", "0", "0", ":", "0", "0", ":", "0", "0", "Z">>
S_projects == <<"p", "r", "o", "j", "e", "c", "t", "s", "/">>
S_traces == <<"/", "t", "r", "a", "c", "e", "s", "/">>
S_truncated == <<".", ".", ".", " ", "[", "t", "r", "u", "n", "c", "a", "t", "e", "d", "]">>
S_TypeError == <<"T", "y", "p", "e", "E", "r", "r", "o", "r">>
S_not_serializable == <<"O", "b", "j", "e", "c", "t", " ", "o", "f", " ", "t", "y", "p", "e", " ", "o", "b", "j", "e", "c", "t", " ", "i", "s", " ", "n", "o", "t", " ", "J", "S", "O", "N", " ", "s", "e", "r", "i", "a", "l", "i", "z", "a", "b", "l", "e">>
S_isoformat == <<"2", "0", "2", "6", "-", "0", "1", "-", "0", "1", "T", "0", "0", ":", "0", "0", ":", "0", "0">>
S_datetime == <<"2", "0", "2", "6", "-", "0", "1", "-", "0", "1", " ", "0", "0", ":", "0", "0", ":", "0", "0">>
S_WARNING == <<"W", "A", "R", "N", "I", "N", "G">>
S_p == <<"p">>
HexDigits == <<"0", "1", "2", "3", "4", "5", "6", "7", "8", "9", "a", "b", "c", "d", "e", "f">>
MaxAttrLen == 1024
TraceIdWidth == 32
SpanIdWidth == 16
PlainObj == Obj(1)
DateObj == Obj(2)

\* format(n, "0<width>x")
RECURSIVE HexPad(_, _)
HexPad(n, width) ==
    IF width = 0 THEN <<>> ELSE HexPad(n \div 16, width - 1) \o <<HexDigits[(n % 16) + 1]>>

\* attr_val[:1024] + "... [truncated]" when len(attr_val) > 1024
Trunc(v) ==
    IF Len(v.s) > MaxAttrLen
    THEN [v EXCEPT !.s = SubSeq(v.s, 1, MaxAttrLen) \o S_truncated]
    ELSE v

\* tracer.start_as_current_span(name): kind "recording" is an SDK span,
\* "unsampled" a NonRecordingSpan with a valid context, "noop" the span of the
\* default provider (invalid context)
StartSpan(w0, t, kind) ==
    Let(w0, LAMBDA w :
    LET sp == NewId(w.spans)
        obj == [sdk |-> kind = "recording", valid |-> kind # "noop", ended |-> FALSE,
                ends |-> 0, attrs |-> <<>>, status |-> "UNSET", tid |-> sp, sid |-> sp]
    IN [w EXCEPT !.spans = Ext(@, sp, obj), !.cur[t] = sp])

\* span.set_status(Status(StatusCode.ERROR)) / span.record_exception(e)
SetError(w, sp) ==
    IF sp # None /\ IsRecording(w.spans[sp])
    THEN [w EXCEPT !.spans[sp].status = "ERROR"]
    ELSE w

\* leaving the with block: span.end() and the previous current span restored
EndSpan(w, t, sp) ==
    [w EXCEPT !.spans[sp].ended = TRUE, !.spans[sp].ends = @ + 1, !.cur[t] = None]

\* LogContext.initialize_with_otel; pid = <<>> is project_id None
InitializeWithOtel(w0, t, pid) ==
    Let(w0, LAMBDA w :
    LET span == CurrentSpan(w, t)
        trace_id == HexPad(span.tid, TraceIdWidth)
        span_id == HexPad(span.sid, SpanIdWidth)
        w1 == IF pid # <<>>
              THEN DoAddTree(w, t, K_trace, StrV(S_projects \o pid \o S_traces \o trace_id))
              ELSE DoAddTree(w, t, K_trace, StrV(trace_id))
    IN IF span.valid THEN DoAddTree(w1, t, K_spanId, StrV(span_id)) ELSE w)

\* {"method": request.method, "path": request.url.path}
HttpMeta ==
    Map([x \in {K_method, K_path} |-> IF x = K_method THEN StrV(S_GET) ELSE StrV(S_slash_t)])

Duration == IntV(5)

\* the status fields without the duration
StatusFieldsNoDuration(statusKey, status) ==
    [x \in {statusKey} |-> IntV(status)]

\* {"status": status, "duration_ms": duration}
StatusFields(statusKey, status) ==
    [x \in {statusKey, K_duration_ms} |-> IF x = statusKey THEN IntV(status) ELSE Duration]

\* log_ctx.add("http", {**log_ctx.get_all().get("http", {}), "status": ..., "duration_ms": ...})
\* (the handlers of this model never store a non-dict under "http")
AddHttpSpread(w0, t, status) ==
    Let(w0, LAMBDA w :
    LET w1 == DoGetAll(w, t)
        top == w1.heap[w1.var[t]]
        old == IF K_http \in DOMAIN top /\ top[K_http].k = "dict"
               THEN w1.heap[top[K_http].i] ELSE EmptyDict
        o == NewId(w1.heap)
    IN DoAdd([w1 EXCEPT !.heap = Ext(@, o, Merge(old, StatusFields(K_status, status)))],
             t, K_http, Ref(o)))

\* django: http_ctx = log_ctx.get_all().get("http", {}); http_ctx.update({...});
\* log_ctx.add("http", http_ctx)
AddHttpUpdate(w0, t, status) ==
    Let(w0, LAMBDA w :
    LET w1 == DoGetAll(w, t)
        top == w1.heap[w1.var[t]]
        has == K_http \in DOMAIN top /\ top[K_http].k = "dict"
        o == IF has THEN top[K_http].i ELSE NewId(w1.heap)
        old == IF has THEN w1.heap[o] ELSE EmptyDict
    IN DoAdd([w1 EXCEPT !.heap = Ext(@, o, Merge(old, StatusFields(K_status_code, status)))],
             t, K_http, Ref(o)))

\* fastapi: the loop of the finally block that copies the bucket onto the span
RECURSIVE MirrorInner(_, _, _, _, _)
MirrorInner(w0, sp, key, o, keys) ==
    Let(w0, LAMBDA w :
    IF keys = {} THEN w
    ELSE LET k2 == CHOOSE x \in keys : TRUE
         IN MirrorInner(SetAttrOn(w, sp, key \o <<Dot>> \o k2, Trunc(StrOf(w.heap, w.heap[o][k2]))),
                        sp, key, o, keys \ {k2}))
RECURSIVE MirrorTop(_, _, _, _)
MirrorTop(w0, sp, o, keys) ==
    Let(w0, LAMBDA w :
    IF keys = {} THEN w
    ELSE LET key == CHOOSE x \in keys : TRUE
             val == w.heap[o][key]
         IN MirrorTop(IF val.k = "dict"
                      THEN MirrorInner(w, sp, key, val.i, DOMAIN w.heap[val.i])
                      ELSE SetAttrOn(w, sp, key, Trunc(StrOf(w.heap, val))),
                      sp, o, keys \ {key}))
FinalMirror(w0, t, sp) ==
    Let(w0, LAMBDA w :
    LET w1 == DoGetAll(w, t)
    IN MirrorTop(w1, sp, w1.var[t], DOMAIN w1.heap[w1.var[t]]))

\* json.dumps(x) without default: every leaf must be a JSON primitive
RECURSIVE Encodable(_)
Encodable(tree) ==
    IF tree.k \in {"map", "list"} THEN \A key \in DOMAIN tree.m : Encodable(tree.m[key])
    ELSE tree.k \in {"int", "str"} /\ tree.m = <<>>

\* core/serialization.py: default_serializer
DefaultSerializer(v) == IF v = DateObj THEN StrV(S_isoformat) ELSE StrOf(<<>>, v)

\* json.dumps(x, default=default_serializer), read back as a document
RECURSIVE Encode(_)
Encode(tree) ==
    IF tree.k \in {"map", "list"}
    THEN [tree EXCEPT !.m = [key \in DOMAIN tree.m |-> Encode(tree.m[key])]]
    ELSE IF tree.k \in {"int", "str"} THEN tree
    ELSE DefaultSerializer(tree)

JsonTypeError ==
    [cls |-> S_TypeError, module |-> S_builtins, msg |-> S_not_serializable, isException |-> TRUE]

\* the record with ctx spread before the fixed fields
FinalLogCtxFirst(b) ==
    Map(Merge(b.m,
              [x \in {K_severity, K_timestamp, K_message} |->
                  IF x = K_severity THEN StrV(S_INFO)
                  ELSE IF x = K_timestamp THEN StrV(S_now)
                  ELSE StrV(S_RequestProcessed)]))

\* fastapi / flask: final_log = {"severity": ctx.get("severity", "INFO"),
\*   "timestamp": ..., "message": "Request processed", **ctx}
FinalLog(b) ==
    Map(Merge([x \in {K_severity, K_timestamp, K_message} |->
                  IF x = K_severity
                  THEN (IF K_severity \in DOMAIN b.m THEN b.m[K_severity] ELSE StrV(S_INFO))
                  ELSE IF x = K_timestamp THEN StrV(S_now)
                  ELSE StrV(S_RequestProcessed)],
              b.m))

\* django: final_log = {"severity": ctx.pop("severity", "INFO"), "timestamp": ..., **ctx}
FinalLogDjango(b, rest) ==
    Map(Merge([x \in {K_severity, K_timestamp} |->
                  IF x = K_severity
                  THEN (IF K_severity \in DOMAIN b.m THEN b.m[K_severity] ELSE StrV(S_INFO))
                  ELSE StrV(S_now)],
              rest.m))

\* a line on a sink: the JSON document, and (history) the request it belongs
\* to and the bucket as it was when emission started
Line(n, doc, b) == [n |-> n, doc |-> doc, bucket |-> b]

\* fastapi / flask _emit_log: returns the world, the lines printed and the
\* exception raised by json.dumps, if any
EmitPrint(w0, t, n) ==
    Let(w0, LAMBDA w :
    LET w1 == DoGetAll(w, t)
        b == Deep(w1.heap, w1.var[t])
    IN IF DOMAIN b.m = {} THEN [w |-> w1, out |-> <<>>, log |-> <<>>, exc |-> NoExc]
       ELSE IF Encodable(FinalLog(b))
            THEN [w |-> w1, out |-> <<Line(n, FinalLog(b), b)>>, log |-> <<>>, exc |-> NoExc]
            ELSE [w |-> w1, out |-> <<>>, log |-> <<>>, exc |-> JsonTypeError])

\* django _emit_log: ctx.pop changes the bucket itself; logger.info on "adk.agentic"
EmitLogger(w0, t, n) ==
    Let(w0, LAMBDA w :
    LET w1 == DoGetAll(w, t)
        o == w1.var[t]
        b == Deep(w1.heap, o)
        h2 == [w1.heap EXCEPT ![o] = Del(@, K_severity)]
    IN IF DOMAIN b.m = {} THEN [w |-> w1, out |-> <<>>, log |-> <<>>, exc |-> NoExc]
       ELSE [w |-> [w1 EXCEPT !.heap = h2], out |-> <<>>,
             log |-> <<Line(n, Encode(FinalLogDjango(b, Deep(h2, o))), b)>>, exc |-> NoExc])

\* tracer configurations: the kind of span the tracer hands out, and the project id
SpanConfigs == {<<"recording", S_p>>, <<"unsampled", <<>>>>, <<"noop", S_p>>}
\* what a request handler stores
HandlerAdds ==
    {<<K_ab, IntV(7)>>, <<K_ab, PlainObj>>, <<K_a, DateObj>>, <<K_severity, StrV(S_WARNING)>>}
HandlerExceptions == {ValueErrorX, Cancelled}
OkStatus == 200
ErrorStatus == 500

CanBegin == req.pc \in {"idle", "done"} /\ req.n < req.quota
InHandler == req.pc \in {"handler", "streaming"}

Begin(adapter, sp, pid) ==
    [adapter |-> adapter, pc |-> "handler", n |-> req.n + 1, span |-> sp, pid |-> pid,
     handlerExc |-> NoExc, propagated |-> NoExc, emitted |-> 0, quota |-> req.quota]

\* the request is over: what the adapter emitted and what it let propagate
Finish(e, handlerExc, propagated) ==
    /\ Commit(e.w)
    /\ stdout' = stdout \o e.out
    /\ logRecords' = logRecords \o e.log
    /\ req' = [req EXCEPT !.pc = "done", !.handlerExc = handlerExc,
                          !.propagated = IF e.exc # NoExc THEN e.exc ELSE propagated,
                          !.emitted = Len(e.out) + Len(e.log)]

HttpFrame == UNCHANGED <<spawned, ops, own, cleared, fresh, runVars>>

\* fastapi __call__ up to the call of the wrapped app (the span object of the
\* previous request is no longer referenced and is dropped)
FastapiBegin(kind, pid) ==
    /\ CanBegin
    /\ LET w1 == StartSpan(DoClear([World EXCEPT !.spans = <<>>], 1), 1, kind)
           sp == w1.cur[1]
           w2 == DoAddTree(InitializeWithOtel(w1, 1, pid), 1, K_http, HttpMeta)
           w3 == SetAttrOn(w2, sp, K_http \o <<Dot>> \o K_method, StrV(S_GET))
           w4 == SetAttrOn(w3, sp, K_http \o <<Dot>> \o K_path, StrV(S_slash_t))
       IN /\ Commit(w4)
          /\ req' = Begin("fastapi", sp, pid)
    /\ last' = Call(1, "begin", <<>>, NoVal, NoExc)
    /\ UNCHANGED <<stdout, logRecords>>
    /\ HttpFrame

\* fastapi __call__ for a scope that is not "http": the app is called as it is
FastapiPassThrough ==
    /\ CanBegin
    /\ last' = Call(1, "passthrough", <<>>, NoVal, NoExc)
    /\ UNCHANGED <<ctxVars, ops, own, cleared, fresh, httpVars, runVars>>

\* send_wrapper on "http.response.start"
FastapiSendStart(status) ==
    /\ req.adapter = "fastapi" /\ req.pc = "handler"
    /\ LET w1 == AddHttpSpread(World, 1, status)
           w2 == SetAttrOn(w1, req.span, K_http \o <<Dot>> \o K_status_code, IntV(status))
           w3 == SetAttrOn(w2, req.span, K_http \o <<Dot>> \o K_duration_ms, Duration)
       IN Commit(w3)
    /\ req' = [req EXCEPT !.pc = "streaming"]
    /\ last' = Call(1, "send", <<>>, NoVal, NoExc)
    /\ UNCHANGED <<stdout, logRecords>>
    /\ HttpFrame

\* the finally block and the end of the with block (which marks the span
\* when an Exception, here the one of json.dumps, leaves it)
FastapiFinally(w) ==
    LET e == EmitPrint(FinalMirror(w, 1, req.span), 1, req.n)
    IN [e EXCEPT !.w = EndSpan(IF e.exc # NoExc THEN SetError(e.w, req.span) ELSE e.w, 1, req.span)]

\* the wrapped app returns
FastapiAppReturns ==
    /\ req.adapter = "fastapi" /\ req.pc = "streaming"
    /\ Finish(FastapiFinally(World), NoExc, NoExc)
    /\ last' = Call(1, "return", <<>>, NoVal, NoExc)
    /\ HttpFrame

\* the wrapped app raises: the except branch for an Exception, then finally
FastapiAppRaises(exc) ==
    /\ req.adapter = "fastapi" /\ InHandler
    /\ LET w1 == AddHttpSpread(DoRecordException(World, 1, exc), 1, ErrorStatus)
           w2 == SetAttrOn(w1, req.span, K_http \o <<Dot>> \o K_status_code, IntV(ErrorStatus))
           w3 == SetAttrOn(w2, req.span, K_http \o <<Dot>> \o K_duration_ms, Duration)
           w4 == SetError(w3, req.span)
           w5 == IF exc.isException THEN w4 ELSE World
       IN Finish(FastapiFinally(w5), exc, exc)
    /\ last' = Call(1, "raise", <<>>, NoVal, exc)
    /\ HttpFrame

\* flask _before_request
FlaskBefore(pid) ==
    /\ CanBegin
    /\ Commit(DoAddTree(InitializeWithOtel(DoClear([World EXCEPT !.spans = <<>>], 1), 1, pid),
                        1, K_http, HttpMeta))
    /\ req' = Begin("flask", None, pid)
    /\ last' = Call(1, "begin", <<>>, NoVal, NoExc)
    /\ UNCHANGED <<stdout, logRecords>>
    /\ HttpFrame

\* flask _after_request: called with the view's response, or with the 500
\* response flask builds for an exception it handles
FlaskAfter(status, exc) ==
    /\ req.adapter = "flask" /\ req.pc = "handler"
    /\ (status = ErrorStatus) = (exc # NoExc)
    /\ Commit(AddHttpSpread(World, 1, status))
    /\ req' = [req EXCEPT !.pc = "after", !.handlerExc = exc]
    /\ last' = Call(1, "after", <<>>, NoVal, exc)
    /\ UNCHANGED <<stdout, logRecords>>
    /\ HttpFrame

\* flask _teardown_request(exception)
FlaskTeardownWith(exc, propagated) ==
    /\ Finish(EmitPrint(IF exc # NoExc THEN DoRecordException(World, 1, exc) ELSE World,
                        1, req.n),
              exc, propagated)
    /\ last' = Call(1, "teardown", <<>>, NoVal, exc)
    /\ HttpFrame

\* teardown after _after_request ran
FlaskTeardown ==
    /\ req.adapter = "flask" /\ req.pc = "after"
    /\ FlaskTeardownWith(req.handlerExc, NoExc)

\* teardown for an exception that flask propagates without building a response
FlaskTeardownPropagated(exc) ==
    /\ req.adapter = "flask" /\ req.pc = "handler"
    /\ FlaskTeardownWith(exc, exc)

\* django __call__ / _acall up to get_response
DjangoBegin(pid) ==
    /\ CanBegin
    /\ Commit(DoAddTree(InitializeWithOtel(DoClear([World EXCEPT !.spans = <<>>], 1), 1, pid),
                        1, K_http, HttpMeta))
    /\ req' = Begin("django", None, pid)
    /\ last' = Call(1, "begin", <<>>, NoVal, NoExc)
    /\ UNCHANGED <<stdout, logRecords>>
    /\ HttpFrame

\* get_response returns: _finalize_http, then finally _emit_log
DjangoReturns(status) ==
    /\ req.adapter = "django" /\ req.pc = "handler"
    /\ Finish(EmitLogger(AddHttpUpdate(World, 1, status), 1, req.n), NoExc, NoExc)
    /\ last' = Call(1, "return", <<>>, NoVal, NoExc)
    /\ HttpFrame

\* get_response raises: _handle_exception for an Exception, then finally _emit_log
DjangoRaises(exc) ==
    /\ req.adapter = "django" /\ req.pc = "handler"
    /\ Finish(EmitLogger(IF exc.isException
                         THEN AddHttpUpdate(DoRecordException(World, 1, exc), 1, ErrorStatus)
                         ELSE World,
                         1, req.n),
              exc, exc)
    /\ last' = Call(1, "raise", <<>>, NoVal, exc)
    /\ HttpFrame

NextHttp ==
    \/ \E c \in SpanConfigs : FastapiBegin(c[1], c[2])
    \/ FastapiPassThrough
    \/ FastapiSendStart(OkStatus)
    \/ FastapiAppReturns
    \/ \E exc \in HandlerExceptions : FastapiAppRaises(exc)
    \/ FlaskBefore(S_p)
    \/ FlaskAfter(OkStatus, NoExc)
    \/ FlaskAfter(ErrorStatus, ValueErrorX)
    \/ FlaskTeardown
    \/ \E exc \in HandlerExceptions : FlaskTeardownPropagated(exc)
    \/ DjangoBegin(S_p)
    \/ DjangoReturns(OkStatus)
    \/ \E exc \in HandlerExceptions : DjangoRaises(exc)
    \/ (InHandler /\ \E a \in HandlerAdds : Add(1, a[1], a[2]))
    \/ (InHandler /\ Clear(1))

SpecHttp == Init /\ [][NextHttp]_vars

---------------------------------------------------------------------------
(* Claims about the middleware adapters *)

\* every line written so far, on either sink
Emitted == [i \in 1..(Len(stdout) + Len(logRecords)) |->
               IF i <= Len(stdout) THEN stdout[i] ELSE logRecords[i - Len(stdout)]]

\* the lines written for request n
LinesOf(n) == {i \in DOMAIN Emitted : Emitted[i].n = n}

\* C7: every HTTP request handled by an adapter produces exactly one emitted
\* record, whether the handler returns or raises and whatever it did to the
\* bucket (clear() included).
C7_OneRecordPerRequest == req.pc = "done" => Cardinality(LinesOf(req.n)) = 1

\* the line is a JSON document: objects whose leaves are numbers and strings
IsJson(doc) == doc.k = "map" /\ Encodable(doc)

\* C8: an emitted record is valid JSON, has a timestamp, has every top-level
\* key of the bucket with the bucket's value (as JSON writes it), and its
\* severity is the bucket's when the bucket has one and "INFO" otherwise.
C8_RecordCarriesBucket ==
    \A i \in DOMAIN Emitted :
        LET doc == Emitted[i].doc
            b == Emitted[i].bucket
        IN /\ DOMAIN b.m # {}
           /\ IsJson(doc)
           /\ K_timestamp \in DOMAIN doc.m
           /\ \A key \in DOMAIN b.m : key \in DOMAIN doc.m /\ doc.m[key] = Encode(b.m[key])
           /\ K_severity \in DOMAIN doc.m
           /\ doc.m[K_severity] =
                  IF K_severity \in DOMAIN b.m THEN Encode(b.m[K_severity]) ELSE StrV(S_INFO)

\* a request whose handler set a severity and a nested key has ended and its
\* record is on a sink
C8_Witness ==
    /\ req.pc = "done"
    /\ Len(stdout) = 1
    /\ TreeGet(stdout[1].bucket, <<K_http, K_status>>) = IntV(OkStatus)
    /\ TreeGet(stdout[1].doc, <<K_severity>>) = StrV(S_WARNING)
    /\ TreeGet(stdout[1].bucket, <<K_severity>>) = StrV(S_WARNING)
    /\ TreeGet(stdout[1].bucket, <<K_a, <<"b">>>>) = IntV(7)

\* C9: a bucket with a leaf that is not a JSON primitive is still emitted, in
\* every adapter, the leaf written as its string conversion.
C9_NonPrimitiveLeafEmitted ==
    (req.pc = "done" /\ ~Encodable(Bucket(1))) =>
        \E i \in LinesOf(req.n) :
            \A key \in DOMAIN Bucket(1).m \ {K_severity} :
                key \in DOMAIN Emitted[i].doc.m /\ Emitted[i].doc.m[key] = Encode(Bucket(1).m[key])

\* C10: the record of a request is on the "adk.agentic" logger, for every
\* adapter; in particular after a request through the FastAPI middleware.
C10_RecordOnAgenticLogger ==
    (req.pc = "done" /\ req.adapter = "fastapi" /\ req.handlerExc = NoExc) =>
        \E i \in DOMAIN logRecords : logRecords[i].n = req.n

---------------------------------------------------------------------------
(* adk/instrumentation.py: instrument_runner *)
K_gen_ai == <<"g", "e", "n", "_", "a", "i">>
K_agent == <<"a", "g", "e", "n", "t">>
K_name == <<"n", "a", "m", "e">>
K_model == <<"m", "o", "d", "e", "l">>
K_usage == <<"u", "s", "a", "g", "e">>
K_total_tokens == <<"t", "o", "t", "a", "l", "_", "t", "o", "k", "e", "n", "s">>
K_input_tokens == <<"i", "n", "p", "u", "t", "_", "t", "o", "k", "e", "n", "s">>
K_output_tokens == <<"o", "u", "t", "p", "u", "t", "_", "t", "o", "k", "e", "n", "s">>
K_invoked == <<"i", "n", "v", "o", "k", "e", "d">>
K_tools == <<"t", "o", "o", "l", "s">>
K_calls == <<"c", "a", "l", "l", "s">>
K_count == <<"c", "o", "u", "n", "t">>
K_arguments == <<"a", "r", "g", "u", "m", "e", "n", "t", "s">>
K_app == <<"a", "p", "p">>
K_user_id == <<"u", "s", "e", "r", "_", "i", "d">>
K_adk == <<"a", "d", "k">>
K_conversation_id == <<"c", "o", "n", "v", "e", "r", "s", "a", "t", "i", "o", "n", "_", "i", "d">>
K_prompt == <<"g", "e", "n", "_", "a", "i", ".", "c", "o", "n", "t", "e", "n", "t", ".", "p", "r", "o", "m", "p", "t">>
K_completion == <<"g", "e", "n", "_", "a", "i", ".", "c", "o", "n", "t", "e", "n", "t", ".", "c", "o", "m", "p", "l", "e", "t", "i", "o", "n">>
S_unknown_model == <<"u", "n", "k", "n", "o", "w", "n", "_", "m", "o", "d", "e", "l">>
S_r == <<"r">>
S_m == <<"m">>
S_u == <<"u">>
S_c == <<"c">>
S_t == <<"t">>

\* d.get(key, {}) on the dict object o: the dict stored under key, or a new one
GetOrNew(w0, o, key) ==
    Let(w0, LAMBDA w :
        IF key \in DOMAIN w.heap[o] /\ w.heap[o][key].k = "dict"
        THEN [w |-> w, o |-> w.heap[o][key].i]
        ELSE Let(NewId(w.heap), LAMBDA n :
                 [w |-> [w EXCEPT !.heap = Ext(@, n, EmptyDict)], o |-> n]))

\* d[key] = value on the dict object o
SetItem(w, o, key, value) == [w EXCEPT !.heap[o] = Put(@, key, value)]

\* span.end() (a second call changes nothing but is counted)
SpanEnd(w, sp) == [w EXCEPT !.spans[sp].ended = TRUE, !.spans[sp].ends = @ + 1]

\* {"name": name, "arguments": args or {}} for each call extract_tool_calls_info finds
RECURSIVE ToolCalls(_)
ToolCalls(names) ==
    IF Len(names) = 0 THEN <<>>
    ELSE <<Map(Put(Put(EmptyDict, K_name, StrV(names[1])), K_arguments, Map(EmptyDict)))>>
         \o ToolCalls(Tail(names))

K_temperature == <<"t", "e", "m", "p", "e", "r", "a", "t", "u", "r", "e">>

\* The agent of a runner: its name, its model (absent, a string or an
\* object), and where the model keeps its temperature: nowhere, as a direct
\* attribute, or inside a generation_config object or dict.  A temperature is
\* written in tenths.
Agent(tempAt, temperature) ==
    [name |-> S_r, modelKind |-> "object", model_name |-> S_m, tempAt |-> tempAt,
     temperature |-> temperature]

\* extract_agent_config: agent_name <<>> is the empty config of a runner
\* without agent; of the parameters read with getattr(model, param, None)
\* the model keeps "temperature" (top_k, top_p and max_output_tokens go the
\* same way)
ExtractAgentConfig(a) ==
    [agent_name |-> a.name,
     model |-> IF a.modelKind = "none" THEN <<>> ELSE a.model_name,
     temperature |-> IF a.modelKind = "object" /\ a.tempAt = "direct"
                     THEN a.temperature ELSE NoVal]

\* for k in ["temperature", ...]: if k in agent_config: gen_ai[k] = agent_config[k]
GenParams(cfg, gen_ai) ==
    IF cfg.temperature # NoVal THEN Put(gen_ai, K_temperature, cfg.temperature) ELSE gen_ai

\* _prepare_log_ctx: cfg is what extract_agent_config finds (agent_name <<>>
\* when the runner has no agent), inp what the runner input carries.  The
\* "temperature" branch is dead: extract_adk_metadata never returns that key.
PrepareLogCtx(w, t, cfg, inp) ==
    Let(IF cfg.agent_name # <<>>
        THEN DoAddTree(w, t, K_gen_ai,
                 Map(GenParams(cfg,
                     Put(Put(EmptyDict, K_agent, Map(Put(EmptyDict, K_name, StrV(cfg.agent_name)))),
                         K_model, StrV(IF cfg.model = <<>> THEN S_unknown_model ELSE cfg.model)))))
        ELSE w, LAMBDA w1 :
    Let(IF inp.user_id # <<>>
        THEN DoAddTree(w1, t, K_app, Map(Put(EmptyDict, K_user_id, StrV(inp.user_id))))
        ELSE w1, LAMBDA w2 :
    Let(IF inp.prompt # <<>>
        THEN DoAddContent(w2, t, K_prompt, StrV(inp.prompt), DefaultSnippetLength)
        ELSE w2, LAMBDA w3 :
        IF inp.conversation_id # <<>>
        THEN DoAddTree(w3, t, K_adk,
                       Map(Put(EmptyDict, K_conversation_id, StrV(inp.conversation_id))))
        ELSE w3)))

S_AttributeError == <<"A", "t", "t", "r", "i", "b", "u", "t", "e", "E", "r", "r", "o", "r">>
S_int_has_no_get == <<"'", "i", "n", "t", "'", " ", "o", "b", "j", "e", "c", "t", " ", "h", "a", "s", " ", "n", "o", " ", "a", "t", "t", "r", "i", "b", "u", "t", "e", " ", "'", "g", "e", "t", "'">>

\* what gen_ai.get("usage", {}) raises when gen_ai is an int
AttributeErrorGet ==
    [cls |-> S_AttributeError, module |-> S_builtins, msg |-> S_int_has_no_get,
     isException |-> TRUE]

\* gen_ai = log_ctx.get_all().get("gen_ai", {}); gen_ai.get("usage", {}):
\* the second call fails when the bucket holds something else than a dict
\* under "gen_ai" (the runs of this model store an int there)
GenAiFails(w, t) ==
    Let(DoGetAll(w, t), LAMBDA w1 :
        /\ K_gen_ai \in DOMAIN w1.heap[w1.var[t]]
        /\ w1.heap[w1.var[t]][K_gen_ai].k # "dict")

\* usage_ctx["input_tokens"] = ...; usage_ctx["output_tokens"] = ... when found
SetTokens(w0, o, c) ==
    Let(IF c.input > 0 THEN SetItem(w0, o, K_input_tokens, IntV(c.input)) ELSE w0, LAMBDA w1 :
        IF c.output > 0 THEN SetItem(w1, o, K_output_tokens, IntV(c.output)) ELSE w1)

HasUsage(c) == c.total > 0 \/ c.input > 0 \/ c.output > 0

\* _process_chunk, the part that writes to the bucket (the dicts found in the
\* bucket are changed in place)
ProcessChunk(w, t, c) ==
    IF ~HasUsage(c) THEN w
    ELSE Let(DoGetAll(w, t), LAMBDA w1 :
         Let(GetOrNew(w1, w1.var[t], K_gen_ai), LAMBDA g :
         Let(GetOrNew(g.w, g.o, K_usage), LAMBDA u :
         Let(SetTokens(u.w, u.o, c), LAMBDA w2 :
             IF DOMAIN w2.heap[u.o] # {}
             THEN DoAdd(SetItem(w2, g.o, K_usage, Ref(u.o)), t, K_gen_ai, Ref(g.o))
             ELSE w2))))

\* _finalize_metrics
FinalizeMetrics(w, t, total, tools, agents) ==
    Let(DoGetAll(w, t), LAMBDA w1 :
    Let(GetOrNew(w1, w1.var[t], K_gen_ai), LAMBDA g :
    Let(GetOrNew(g.w, g.o, K_usage), LAMBDA u :
    Let(SetItem(SetItem(u.w, u.o, K_total_tokens, IntV(total)), g.o, K_usage, Ref(u.o)), LAMBDA w2 :
    Let(GetOrNew(w2, g.o, K_agent), LAMBDA a :
    Let(IF agents # {}
        THEN SetItem(SetItem(a.w, a.o, K_invoked, ListV(<<StrV(CHOOSE x \in agents : TRUE)>>)),
                     g.o, K_agent, Ref(a.o))
        ELSE w2, LAMBDA w3 :
    Let(DoAdd(w3, t, K_gen_ai, Ref(g.o)), LAMBDA w4 :
        IF Len(tools) > 0
        THEN DoAddTree(w4, t, K_tools,
                       Map(Put(Put(EmptyDict, K_calls, ListV(tools)), K_count, IntV(Len(tools)))))
        ELSE w4)))))))

\* _capture_metrics
CaptureMetrics(w, t, result) ==
    Let(FinalizeMetrics(w, t, result.total, ToolCalls(result.tools),
                        IF result.agent # <<>> THEN {result.agent} ELSE {}), LAMBDA w1 :
    Let(DoGetAll(w1, t), LAMBDA w2 :
    Let(GetOrNew(w2, w2.var[t], K_gen_ai), LAMBDA g :
    Let(GetOrNew(g.w, g.o, K_usage), LAMBDA u :
        IF result.input > 0 \/ result.output > 0
        THEN DoAdd(SetItem(SetTokens(u.w, u.o, result), g.o, K_usage, Ref(u.o)),
                   t, K_gen_ai, Ref(g.o))
        ELSE w1))))

\* _add_span_attributes_from_ctx
RECURSIVE SetNestedAttr(_, _, _, _)
RECURSIVE SetNestedKeys(_, _, _, _, _)
SetNestedKeys(w0, sp, prefix, o, keys) ==
    Let(w0, LAMBDA w :
        IF keys = {} THEN w
        ELSE Let(CHOOSE x \in keys : TRUE, LAMBDA k2 :
                 SetNestedKeys(SetNestedAttr(w, sp, IF prefix = <<>> THEN k2
                                                    ELSE prefix \o <<Dot>> \o k2,
                                             w.heap[o][k2]),
                               sp, prefix, o, keys \ {k2})))
SetNestedAttr(w0, sp, prefix, v) ==
    Let(w0, LAMBDA w :
    IF v.k = "dict"
    THEN SetNestedKeys(w, sp, prefix, v.i, DOMAIN w.heap[v.i])
    ELSE SetAttrOn(w, sp, prefix, Trunc(StrOf(w.heap, v))))
AddSpanAttributesFromCtx(w, t, sp) ==
    Let(DoGetAll(w, t), LAMBDA w1 :
        SetNestedKeys(w1, sp, <<>>, w1.var[t],
                      DOMAIN w1.heap[w1.var[t]] \ {K_severity, K_timestamp, K_message}))

\* the try block of the wrappers for a direct response with span.end() moved
\* ahead of the capture of the metrics
DirectResponseEndsFirst(w, t, sp, result) ==
    IF GenAiFails(SpanEnd(w, sp), t)
    THEN [w |-> SpanEnd(SetError(DoRecordException(SpanEnd(w, sp), t, AttributeErrorGet), sp), sp),
          exc |-> AttributeErrorGet]
    ELSE [w |-> AddSpanAttributesFromCtx(CaptureMetrics(SpanEnd(w, sp), t, result), t, sp),
          exc |-> NoExc]

\* sync_wrapper / async_wrapper for a direct response: _capture_metrics,
\* _add_span_attributes_from_ctx, span.end(), and the except branch when
\* _finalize_metrics raises (which it does before it has changed anything).
\* Returns the world and the exception that reaches the caller.
DirectResponse(w, t, sp, result) ==
    IF GenAiFails(w, t)
    THEN [w |-> SpanEnd(SetError(DoRecordException(w, t, AttributeErrorGet), sp), sp),
          exc |-> AttributeErrorGet]
    ELSE [w |-> SpanEnd(AddSpanAttributesFromCtx(CaptureMetrics(w, t, result), t, sp), sp),
          exc |-> NoExc]

\* the finally block of _wrap_generator / _wrap_async_generator: returns the
\* world and the exception the block raises (_finalize_metrics fails unless
\* add_content has just put a dict under "gen_ai"; the span is then left open)
StreamFinally(w, t) ==
    Let(IF run.text # <<>>
        THEN DoAddContent(w, t, K_completion, StrV(run.text), DefaultSnippetLength)
        ELSE w, LAMBDA w1 :
        IF GenAiFails(w1, t) THEN [w |-> w1, exc |-> AttributeErrorGet]
        ELSE Let(FinalizeMetrics(w1, t, run.total, run.tools, run.agents), LAMBDA w2 :
                 [w |-> SpanEnd(AddSpanAttributesFromCtx(w2, t, run.span), run.span),
                  exc |-> NoExc]))

RunnerModes == {"sync", "async", "asyncgen"}
RunnerSpanKinds == {"recording", "noop"}
RunnerConfigs == {NoAgent, Agent("none", NoVal)}
RunnerInputs ==
    {[user_id |-> <<>>, conversation_id |-> <<>>, prompt |-> <<>>],
     [user_id |-> S_u, conversation_id |-> S_c, prompt |-> S_x]}
\* a chunk of a stream, or a direct result: agent name, usage counts (0 when
\* absent), names of the tools called, text
ChunkText == [agent |-> S_r, total |-> 5, input |-> 2, output |-> 3, tools |-> <<>>, text |-> S_x]
ChunkTool == [agent |-> <<>>, total |-> 0, input |-> 0, output |-> 0, tools |-> <<S_t>>, text |-> <<>>]
Chunks == {ChunkText, ChunkTool}
RunnerExceptions == {ValueErrorX, Cancelled}

\* A chunk as the decorated generator yields it: an object or a dict, with
\* "usage" and "usage_metadata" (each absent, an object or a dict; counts are
\* 0 when absent), "agent_name", the names of the tools called and "text".
NoUsage ==
    [present |-> FALSE, isDict |-> FALSE, total_tokens |-> 0, total_token_count |-> 0,
     input |-> 0, output |-> 0]
Usage(isDict, total_tokens, total_token_count, input, output) ==
    [present |-> TRUE, isDict |-> isDict, total_tokens |-> total_tokens,
     total_token_count |-> total_token_count, input |-> input, output |-> output]
RawChunk(isDict, usage, usage_metadata, agent, tools, text) ==
    [isDict |-> isDict, usage |-> usage, usage_metadata |-> usage_metadata,
     agent |-> agent, tools |-> tools, text |-> text]

\* getattr(chunk, attr, None), then chunk.get(attr) when that gave None and
\* the chunk is a dict
ChunkField(c, attr) ==
    LET byAttr == IF c.isDict THEN NoUsage ELSE c[attr]
    IN IF ~byAttr.present /\ c.isDict THEN c[attr] ELSE byAttr

\* bool(usage): an object is true, a dict when it is not empty
Truthy(u) ==
    u.present /\ (u.isDict => (u.total_tokens + u.total_token_count + u.input + u.output) > 0)

\* a lookup that knows "usage" only
ChunkUsageOnly(c) == ChunkField(c, "usage")

\* the loop over ["usage", "usage_metadata"], which stops at the first true value
ChunkUsage(c) ==
    IF Truthy(ChunkField(c, "usage")) THEN ChunkField(c, "usage")
    ELSE ChunkField(c, "usage_metadata")

\* total_tokens_val: getattr(usage, "total_tokens", getattr(usage,
\* "total_token_count", None)), then for a dict the chain of usage.get
UsageTotal(u) ==
    LET byAttr == IF u.isDict THEN 0
                  ELSE IF u.total_tokens # 0 THEN u.total_tokens ELSE u.total_token_count
    IN IF u.isDict
       THEN IF byAttr # 0 THEN byAttr
            ELSE IF u.total_tokens # 0 THEN u.total_tokens ELSE u.total_token_count
       ELSE byAttr

\* a reading of the chunk that finds text only as an object attribute
ExtractedTextByAttr(c) ==
    LET u == ChunkUsage(c)
        usable == Truthy(u)
    IN [agent |-> IF c.isDict THEN <<>> ELSE c.agent,
        total |-> IF usable THEN UsageTotal(u) ELSE 0,
        input |-> IF usable THEN u.input ELSE 0,
        output |-> IF usable THEN u.output ELSE 0,
        tools |-> c.tools,
        text |-> IF c.isDict THEN <<>> ELSE c.text]

\* what _process_chunk and the wrapper read from a chunk (agent_name only
\* from an attribute; text from an attribute or a dict entry)
Extracted(c) ==
    LET u == ChunkUsage(c)
        usable == Truthy(u)
    IN [agent |-> IF c.isDict THEN <<>> ELSE c.agent,
        total |-> IF usable THEN UsageTotal(u) ELSE 0,
        input |-> IF usable THEN u.input ELSE 0,
        output |-> IF usable THEN u.output ELSE 0,
        tools |-> c.tools,
        text |-> c.text]

\* the shape of a chunk: chunk kind, where the usage is, usage kind
ShapeOf(c) ==
    <<IF c.isDict THEN "dict" ELSE "object",
      IF c.usage.present THEN "usage"
      ELSE IF c.usage_metadata.present THEN "usage_metadata" ELSE "none",
      IF c.usage.present THEN (IF c.usage.isDict THEN "dict" ELSE "object")
      ELSE IF c.usage_metadata.present
           THEN (IF c.usage_metadata.isDict THEN "dict" ELSE "object") ELSE "none">>

S_y == <<"y">>
RawObjUsage == RawChunk(FALSE, Usage(FALSE, 5, 0, 2, 3), NoUsage, S_r, <<>>, S_x)
RawDictUsage == RawChunk(TRUE, Usage(TRUE, 5, 0, 2, 3), NoUsage, <<>>, <<>>, <<>>)
RawObjMeta == RawChunk(FALSE, NoUsage, Usage(FALSE, 0, 7, 0, 0), <<>>, <<>>, <<>>)
RawDictMeta == RawChunk(TRUE, NoUsage, Usage(TRUE, 7, 0, 0, 0), <<>>, <<>>, S_y)
RawTool == RawChunk(FALSE, NoUsage, NoUsage, <<>>, <<S_t>>, <<>>)
RawChunks == {RawObjUsage, RawDictUsage, RawObjMeta, RawDictMeta, RawTool}

\* the largest total-token count a chunk carries, wherever it carries it
Reported(c) ==
    LET counts == {c.usage.total_tokens, c.usage.total_token_count,
                   c.usage_metadata.total_tokens, c.usage_metadata.total_token_count}
    IN CHOOSE n \in counts : \A x \in counts : x <= n

RunFrame == UNCHANGED <<spawned, own, cleared, fresh, httpVars, otel>>
InRunner == run.pc \in {"running", "streaming"}

\* the wrapper up to the call of the decorated function: sync_wrapper and
\* async_wrapper make the new span current, async_gen_wrapper does not and
\* returns the wrapped generator at once
RunnerCall(mode, kind, agent, inp) ==
    /\ run.pc = "idle"
    /\ LET w1 == StartSpan(World, 1, kind)
           sp == w1.cur[1]
           w2 == IF mode = "asyncgen" THEN [w1 EXCEPT !.cur = curSpan] ELSE w1
       IN /\ Commit(PrepareLogCtx(w2, 1, ExtractAgentConfig(agent), inp))
          /\ run' = [NoRun EXCEPT !.pc = IF mode = "asyncgen" THEN "streaming" ELSE "running",
                                  !.mode = mode, !.span = sp, !.prev = curSpan[1],
                                  !.agent = agent]
    /\ last' = Call(1, "run", <<>>, NoVal, NoExc)
    /\ UNCHANGED ops
    /\ RunFrame

\* the decorated function returns a direct response
RunnerReturns(result) ==
    /\ run.pc = "running"
    /\ \E e \in {DirectResponse(World, 1, run.span, result)} :
           /\ Commit([e.w EXCEPT !.cur[1] = run.prev])
           /\ run' = [run EXCEPT !.pc = "done", !.seen = e.exc]
    /\ last' = Call(1, "return", <<>>, NoVal, NoExc)
    /\ UNCHANGED ops
    /\ RunFrame

\* the decorated function returns a generator: the wrapper returns it wrapped
RunnerReturnsStream ==
    /\ run.pc = "running"
    /\ Commit([World EXCEPT !.cur[1] = run.prev])
    /\ run' = [run EXCEPT !.pc = "streaming"]
    /\ last' = Call(1, "stream", <<>>, NoVal, NoExc)
    /\ UNCHANGED ops
    /\ RunFrame

\* the decorated function raises: the except branch for an Exception
RunnerRaises(exc) ==
    /\ run.pc = "running"
    /\ LET w1 == SpanEnd(SetError(DoRecordException(World, 1, exc), run.span), run.span)
       IN Commit([(IF exc.isException THEN w1 ELSE World) EXCEPT !.cur[1] = run.prev])
    /\ run' = [run EXCEPT !.pc = "done", !.raised = exc, !.seen = exc]
    /\ last' = Call(1, "raise", <<>>, NoVal, exc)
    /\ UNCHANGED ops
    /\ RunFrame

\* the consumer takes one chunk from the wrapped generator.  When
\* _process_chunk raises, the chunk is not passed on: the finally block runs
\* and the consumer gets the exception (the one of the finally block when
\* that raises too).
StreamNext(raw) ==
    /\ run.pc = "streaming"
    /\ ops < MaxOps
    /\ Tick
    /\ \E c \in {Extracted(raw)} :
        IF HasUsage(c) /\ GenAiFails(World, 1)
        THEN \E e \in {StreamFinally(World, 1)} :
                /\ Commit(e.w)
                /\ run' = [run EXCEPT !.pc = "done", !.seen = AttributeErrorGet,
                                      !.gave = @ + 1]
        ELSE /\ Commit(ProcessChunk(World, 1, c))
             /\ run' = [run EXCEPT !.total = IF c.total > @ THEN c.total ELSE @,
                                   !.tools = @ \o ToolCalls(c.tools),
                                   !.agents = IF c.agent # <<>> THEN @ \cup {c.agent} ELSE @,
                                   !.text = @ \o c.text,
                                   !.yielded = @ + 1,
                                   !.gave = @ + 1,
                                   !.reported = IF Reported(raw) > @ THEN Reported(raw) ELSE @,
                                   !.said = @ \o raw.text]
    /\ last' = Call(1, "chunk", ShapeOf(raw), NoVal, NoExc)
    /\ RunFrame

\* the stream is exhausted
StreamEnds ==
    /\ run.pc = "streaming"
    /\ \E e \in {StreamFinally(World, 1)} :
           /\ Commit(e.w)
           /\ run' = [run EXCEPT !.pc = "done", !.seen = e.exc]
    /\ last' = Call(1, "stream_end", <<>>, NoVal, NoExc)
    /\ UNCHANGED ops
    /\ RunFrame

\* the consumer closes the stream before it is exhausted: GeneratorExit is
\* raised at the yield and the finally block runs; a generator that was never
\* started has no frame to unwind and runs nothing
StreamCloses ==
    /\ run.pc = "streaming"
    /\ \E e \in {IF run.yielded > 0 THEN StreamFinally(World, 1)
                  ELSE [w |-> World, exc |-> NoExc]} :
           /\ Commit(e.w)
           /\ run' = [run EXCEPT !.pc = "done", !.seen = e.exc]
    /\ last' = Call(1, "close", <<>>, NoVal, NoExc)
    /\ UNCHANGED ops
    /\ RunFrame

\* the underlying generator raises while the stream is consumed
StreamRaises(exc) ==
    /\ run.pc = "streaming"
    /\ \E e \in {StreamFinally(World, 1)} :
           /\ Commit(e.w)
           /\ run' = [run EXCEPT !.pc = "done", !.raised = exc,
                                 !.seen = IF e.exc # NoExc THEN e.exc ELSE exc]
    /\ last' = Call(1, "stream_raise", <<>>, NoVal, exc)
    /\ UNCHANGED ops
    /\ RunFrame

NextRunner ==
    \/ \E mode \in RunnerModes, kind \in RunnerSpanKinds, agent \in RunnerConfigs,
          inp \in RunnerInputs : RunnerCall(mode, kind, agent, inp)
    \/ \E result \in Chunks : RunnerReturns(result)
    \/ RunnerReturnsStream
    \/ \E exc \in RunnerExceptions : RunnerRaises(exc)
    \/ \E raw \in RawChunks : StreamNext(raw)
    \/ StreamEnds
    \/ StreamCloses
    \/ \E exc \in RunnerExceptions : StreamRaises(exc)
    \/ (InRunner /\ Add(1, K_ab, IntV(7)))
    \/ (InRunner /\ Clear(1))

SpecRunner == Init /\ [][NextRunner]_vars

\* C6: when the wrapped unit of work raises an exception, also while its
\* streamed result is consumed, the bucket holds the error record (type,
\* message, module) and severity "ERROR" when the exception reaches the caller.
C6_RunnerErrorRecorded ==
    (run.pc = "done" /\ run.raised.isException) =>
        /\ TreeGet(Bucket(1), <<K_error, K_type>>) = StrV(run.raised.cls)
        /\ TreeGet(Bucket(1), <<K_error, K_message>>) = StrV(run.raised.msg)
        /\ TreeGet(Bucket(1), <<K_error, K_module>>) = StrV(run.raised.module)
        /\ TreeGet(Bucket(1), <<K_severity>>) = StrV(S_ERROR)

---------------------------------------------------------------------------
(* Claims about the record of a FastAPI request *)

\* the record of a FastAPI request whose handler returned has the fields of
\* the test of the success path
SuccessFields(doc) ==
    /\ TreeGet(doc, <<K_severity>>) = StrV(S_INFO)
    /\ TreeGet(doc, <<K_http, K_method>>) = StrV(S_GET)
    /\ TreeGet(doc, <<K_http, K_path>>) = StrV(S_slash_t)
    /\ TreeGet(doc, <<K_http, K_status>>) = IntV(OkStatus)
    /\ TreeGet(doc, <<K_http, K_duration_ms>>) # NoVal

FastapiReturned == req.pc = "done" /\ req.adapter = "fastapi" /\ req.handlerExc = NoExc

---------------------------------------------------------------------------
(* The span mirror of add and add_content, under the FastAPI middleware *)

\* a string one character longer than the truncation limit of the mirrors
LongText == [n \in 1..(MaxAttrLen + 1) |-> "x"]
\* a string one character longer than the default snippet length
Text51 == [n \in 1..(DefaultSnippetLength + 1) |-> "y"]

DictLong == Map([x \in {<<"b">>} |-> StrV(LongText)])
DictDeep ==
    Map([x \in {<<"b">>, <<"e">>} |->
            IF x = <<"b">>
            THEN Map([y \in {<<"c">>, <<"d">>} |-> IF y = <<"c">> THEN IntV(7) ELSE StrV(S_x)])
            ELSE IntV(1)])

\* what the handler stores with add, and with add_content
MirrorAdds ==
    {<<K_a, StrV(LongText)>>, <<K_a, DictLong>>, <<K_a, DictDeep>>, <<K_a, Map(EmptyDict)>>,
     <<K_ab, DictB1>>}
ContentAdds == {<<K_ab, StrV(Text51)>>, <<K_prompt, StrV(Text51)>>}

NextMirror ==
    \/ \E c \in SpanConfigs : FastapiBegin(c[1], c[2])
    \/ (InHandler /\ \E a \in MirrorAdds : Add(1, a[1], a[2]))
    \/ (InHandler /\ \E a \in ContentAdds : AddContent(1, a[1], a[2]))
    \/ FastapiSendStart(OkStatus)
    \/ FastapiAppReturns

SpecMirror == Init /\ [][NextMirror]_vars

\* the attributes of the span of the request
SpanAttrs == IF req.span = None THEN <<>> ELSE spanObjs[req.span].attrs
\* the span of the request is recording
SpanRecording == req.span # None /\ IsRecording(spanObjs[req.span])

\* C12: when add(key, value) mirrors a value onto a recording span and the
\* stringified value is longer than 1024 characters, the span attribute
\* written is the first 1024 characters followed by a truncation marker, for
\* a scalar value and for every leaf of a nested map value.
C12_AddMirrorTruncates ==
    (last.op = "add" /\ SpanRecording) =>
        /\ last.val = StrV(LongText) =>
               /\ last.key \in DOMAIN SpanAttrs
               /\ SpanAttrs[last.key] = StrV(SubSeq(LongText, 1, MaxAttrLen) \o S_truncated)
        /\ last.val = DictLong =>
               /\ last.key \o <<Dot, "b">> \in DOMAIN SpanAttrs
               /\ SpanAttrs[last.key \o <<Dot, "b">>] =
                      StrV(SubSeq(LongText, 1, MaxAttrLen) \o S_truncated)

\* the attribute writes a nested map calls for: one <<name, string>> per
\* leaf that is not a map, the name being the prefix joined with the path
RECURSIVE LeafPairs(_, _)
LeafPairs(prefix, tree) ==
    IF tree.k = "map"
    THEN UNION {LeafPairs(prefix \o <<Dot>> \o k2, tree.m[k2]) : k2 \in DOMAIN tree.m}
    ELSE {<<prefix, StrOf(<<>>, tree)>>}

\* C13: when add(key, value) receives a nested map while a span is recording,
\* it writes exactly one span attribute per non-map leaf, named key joined
\* with the leaf's path by dots and valued with the stringified leaf, and
\* writes no attribute for a map-valued node, at any nesting depth: every
\* other attribute of the span is as it was before the call.
C13_FlattenWritesLeaves ==
    [][(last'.op = "add" /\ last'.val.k = "map" /\ SpanRecording) =>
          LET P == LeafPairs(last'.key, last'.val)
          IN /\ \A p \in P : p[1] \in DOMAIN SpanAttrs' /\ SpanAttrs'[p[1]] = p[2]
             /\ DOMAIN SpanAttrs \subseteq DOMAIN SpanAttrs'
             /\ \A name \in DOMAIN SpanAttrs' :
                    \/ name \in {p[1] : p \in P}
                    \/ name \in DOMAIN SpanAttrs /\ SpanAttrs'[name] = SpanAttrs[name]]_vars

\* a three-level map was just added under a recording span that already had
\* an attribute for one of the map's inner nodes
C13_Witness ==
    /\ last.op = "add" /\ last.val = DictDeep /\ SpanRecording
    /\ K_ab \in DOMAIN SpanAttrs
    /\ K_abc \in DOMAIN SpanAttrs /\ SpanAttrs[K_abc] = StrV(<<"7">>)
    /\ K_a \o <<Dot, "e">> \in DOMAIN SpanAttrs

\* C15: after add_content(key, value) with a string longer than snippet_length
\* while a valid (here: recording) span is current, the bucket holds the full
\* value under key and the span attribute key holds only the first
\* snippet_length characters followed by "...", and the attribute remains
\* that snippet until the span ends, also after the end-of-work mirror of the
\* bucket onto the span.
C15_SnippetKept ==
    \A a \in ContentAdds :
        (/\ req.span # None /\ spanObjs[req.span].sdk
         /\ Len(a[2].s) > DefaultSnippetLength
         /\ TreeGet(Bucket(1), Split(a[1])) = a[2]) =>
            /\ a[1] \in DOMAIN SpanAttrs
            /\ SpanAttrs[a[1]] = StrV(SubSeq(a[2].s, 1, DefaultSnippetLength) \o <<".", ".", ".">>)

\* C26: the end-of-work mirror of the bucket onto the request span writes one
\* attribute per non-map leaf under its full dot-joined path, at any nesting
\* depth, and no attribute value it writes is the string form of a nested
\* map: once the FastAPI request is over, the recording span has an
\* attribute for every leaf of the bucket and none of its attribute values is
\* a stringified map.
C26_FinalMirrorFlattens ==
    (req.pc = "done" /\ req.adapter = "fastapi" /\ req.span # None /\ spanObjs[req.span].sdk) =>
        /\ \A key \in DOMAIN Bucket(1).m :
               \A p \in LeafPairs(key, Bucket(1).m[key]) : p[1] \in DOMAIN SpanAttrs
        /\ \A name \in DOMAIN SpanAttrs : SpanAttrs[name].m = <<>>

\* C29: add(key, m) with a map value on a key that already holds a map
\* replaces it rather than deep-merging: after the call the bucket value at
\* key equals m exactly, and no entry of the previous map survives unless m
\* contains it.
C29_MapAddReplaces ==
    [][(/\ last'.op = "add" /\ last'.val.k = "map"
        /\ TreeGet(Bucket(1), WrittenPath(last'.key)).k = "map") =>
          TreeGet(View(heap', var', 1), WrittenPath(last'.key)) = last'.val]_vars

\* add("a.b", {"b": 1}) after add("a", {"b": {"c": 7, "d": "x"}, "e": 1}): the
\* span still has the attributes of the leaves of the map that a.b held, the
\* bucket has the new map only, and the sibling a.e is untouched
C29_Witness ==
    /\ last.op = "add" /\ last.key = K_ab /\ last.val = DictB1
    /\ SpanRecording
    /\ K_abc \in DOMAIN SpanAttrs
    /\ TreeGet(Bucket(1), <<K_a, <<"b">>>>) = DictB1
    /\ TreeGet(Bucket(1), <<K_a, <<"e">>>>) = IntV(1)

---------------------------------------------------------------------------
(* Claims about a streamed run *)

C17_CompletionIsConcat ==
    (run.pc = "done" /\ last.op \in {"stream_end", "close", "stream_raise"}) =>
        TreeGet(Bucket(1), Split(K_completion)) =
            IF run.said # <<>> THEN StrV(run.said) ELSE NoVal

\* a stream that yielded a dict chunk with text "y" and then an object chunk
\* with text "x" is closed before it is exhausted
C17_Witness ==
    /\ run.pc = "done" /\ last.op = "close"
    /\ run.said = S_y \o S_x
    /\ TreeGet(Bucket(1), Split(K_completion)) = StrV(S_y \o S_x)

---------------------------------------------------------------------------
(* An instrumented runner called by the handler of a FastAPI request *)

\* the agents of the temperature test: 0.7 direct, 0.8 in a generation_config
\* object, 0.9 in a generation_config dict
TemperatureAgents ==
    {Agent("direct", IntV(7)), Agent("object", IntV(8)), Agent("dict", IntV(9))}

\* the tracer of the runner is the tracer of the middleware
KindOf(sp) ==
    IF spanObjs[sp].sdk THEN "recording" ELSE IF spanObjs[sp].valid THEN "unsampled" ELSE "noop"

NextAgent ==
    \/ \E c \in SpanConfigs : FastapiBegin(c[1], c[2])
    \/ (req.pc = "handler" /\ \E mode \in RunnerModes, agent \in TemperatureAgents,
           inp \in RunnerInputs : RunnerCall(mode, KindOf(req.span), agent, inp))
    \/ (req.pc = "handler" /\ \E result \in Chunks : RunnerReturns(result))
    \/ (req.pc = "handler" /\ RunnerReturnsStream)
    \/ (req.pc = "handler" /\ \E raw \in RawChunks : StreamNext(raw))
    \/ (req.pc = "handler" /\ StreamEnds)
    \/ (run.pc \in {"idle", "done"} /\ FastapiSendStart(OkStatus))
    \/ FastapiAppReturns

SpecAgent == Init /\ [][NextAgent]_vars

\* C18: after an instrumented run behind the FastAPI middleware, the emitted
\* record carries the agent model's configured temperature under both
\* gen_ai.temperature and adk.temperature, whether the model exposes it as a
\* direct attribute, inside a generation_config object, or inside a
\* generation_config dict.
C18_TemperatureLogged ==
    (FastapiReturned /\ run.pc = "done" /\ run.agent.tempAt # "none") =>
        \E i \in LinesOf(req.n) :
            /\ TreeGet(Emitted[i].doc, <<K_gen_ai, K_temperature>>) = run.agent.temperature
            /\ TreeGet(Emitted[i].doc, <<K_adk, K_temperature>>) = run.agent.temperature

---------------------------------------------------------------------------
(* otel_setup.py, otel/config.py, otel/processors.py: tracer providers and *)
(* span processors.  A provider is [sdk, procs, adk]: sdk = FALSE has no    *)
(* add_span_processor; procs is the sequence of processors it received,    *)
(* each [kind, by]; adk is its _adk_processors set (absent = empty).        *)
MaxProviders == 1
MaxSpans == 1

K_llm_request == <<"g", "c", "p", ".", "v", "e", "r", "t", "e", "x", ".", "a", "g", "e", "n", "t", ".", "l", "l", "m", "_", "r", "e", "q", "u", "e", "s", "t">>
K_llm_response == <<"g", "c", "p", ".", "v", "e", "r", "t", "e", "x", ".", "a", "g", "e", "n", "t", ".", "l", "l", "m", "_", "r", "e", "s", "p", "o", "n", "s", "e">>
K_other_attribute == <<"o", "t", "h", "e", "r", ".", "a", "t", "t", "r", "i", "b", "u", "t", "e">>

Processor(kind, by) == [kind |-> kind, by |-> by]
\* TracerProvider()
SdkProvider == [sdk |-> TRUE, procs |-> <<>>, adk |-> {}]
\* a provider without add_span_processor (NoOpTracerProvider)
NoOpProvider == [sdk |-> FALSE, procs |-> <<>>, adk |-> {}]

\* trace.set_tracer_provider(p): the global provider is set once; a later
\* call is refused with a warning
SetTracerProvider(o, p) == IF o.global = 0 THEN [o EXCEPT !.global = p] ELSE o

\* steps 2 and 3 of configure_otel without the _adk_processors guard
AddProcessorsUnguarded(provs, p, console, google, gcp) ==
    Let(IF console
        THEN [provs EXCEPT ![p].procs = Append(@, Processor("console", "configure_otel")),
                           ![p].adk = @ \cup {"console"}]
        ELSE provs, LAMBDA p1 :
        IF google /\ gcp
        THEN [p1 EXCEPT ![p].procs = Append(@, Processor("google", "configure_otel")),
                        ![p].adk = @ \cup {"google"}]
        ELSE p1)

\* steps 2 and 3 of configure_otel on provider p; gcp says whether
\* CloudTraceSpanExporter could be imported
AddProcessors(provs, p, console, google, gcp) ==
    Let(IF console /\ "console" \notin provs[p].adk
        THEN [provs EXCEPT ![p].procs = Append(@, Processor("console", "configure_otel")),
                           ![p].adk = @ \cup {"console"}]
        ELSE provs, LAMBDA p1 :
        IF google /\ "google" \notin p1[p].adk /\ gcp
        THEN [p1 EXCEPT ![p].procs = Append(@, Processor("google", "configure_otel")),
                        ![p].adk = @ \cup {"google"}]
        ELSE p1)

\* step 1 of configure_otel: the global provider when it has
\* add_span_processor, else a new TracerProvider set as global
NeedsProvider(o) == o.global = 0 \/ ~o.providers[o.global].sdk

OtelFrame == UNCHANGED <<spawned, ops, own, cleared, fresh, httpVars, run>>

\* steps 1 to 3 of configure_otel
ConfigureTracing(console, google, gcp) ==
    LET o1 == IF NeedsProvider(otel)
              THEN SetTracerProvider([otel EXCEPT !.providers = Append(@, SdkProvider)],
                                     Len(otel.providers) + 1)
              ELSE otel
        p == IF NeedsProvider(otel) THEN Len(o1.providers) ELSE otel.global
    IN [o1 EXCEPT !.providers = AddProcessors(@, p, console, google, gcp)]

\* configure_logging / configure_otel with enable_cloud_logging left False
ConfigureOtel(console, google, gcp) ==
    /\ NeedsProvider(otel) => Len(otel.providers) < MaxProviders
    /\ otel' = ConfigureTracing(console, google, gcp)
    /\ last' = Call(1, "configure", <<>>, NoVal, NoExc)
    /\ UNCHANGED ctxVars
    /\ OtelFrame

\* the application installs a provider of its own before the library is configured
InstallProvider(prov) ==
    /\ otel.global = 0
    /\ Len(otel.providers) < MaxProviders
    /\ otel' = SetTracerProvider([otel EXCEPT !.providers = Append(@, prov)],
                                 Len(otel.providers) + 1)
    /\ last' = Call(1, "install", <<>>, NoVal, NoExc)
    /\ UNCHANGED ctxVars
    /\ OtelFrame

\* configure_adk_telemetry
ConfigureAdkTelemetry ==
    /\ Len(otel.providers) < MaxProviders
    /\ LET prov == [SdkProvider EXCEPT
                       !.procs = <<Processor("sanitizer", "configure_adk_telemetry"),
                                   Processor("google", "configure_adk_telemetry")>>]
       IN otel' = SetTracerProvider([otel EXCEPT !.providers = Append(@, prov)],
                                    Len(otel.providers) + 1)
    /\ last' = Call(1, "configure_adk", <<>>, NoVal, NoExc)
    /\ UNCHANGED ctxVars
    /\ OtelFrame

\* a provider built by hand, as in the tests of the sanitizer
TestProviders ==
    {<<Processor("sanitizer", "test"), Processor("simple", "test")>>,
     <<Processor("simple", "test"), Processor("sanitizer", "test")>>}
NewProvider(procs) ==
    /\ Len(otel.providers) < MaxProviders
    /\ otel' = [otel EXCEPT !.providers = Append(@, [SdkProvider EXCEPT !.procs = procs])]
    /\ last' = Call(1, "provider", <<>>, NoVal, NoExc)
    /\ UNCHANGED ctxVars
    /\ OtelFrame

\* provider.get_tracer(...).start_as_current_span(...)
OtelStartSpan(p) ==
    /\ p \in DOMAIN otel.providers /\ otel.providers[p].sdk
    /\ otel.open.sp = None
    /\ otel.spans < MaxSpans
    /\ LET w1 == StartSpan(World, 1, "recording")
       IN /\ Commit(w1)
          /\ otel' = [otel EXCEPT !.open = [p |-> p, sp |-> w1.cur[1], attrs |-> <<>>],
                                  !.spans = @ + 1]
    /\ last' = Call(1, "start_span", <<>>, NoVal, NoExc)
    /\ OtelFrame

SpanAttributes == {K_llm_request, K_llm_response, K_other_attribute}

\* span.set_attribute(name, "x") inside the with block
OtelSetAttribute(name) ==
    /\ otel.open.sp # None
    /\ Commit(SetAttrOn(World, otel.open.sp, name, StrV(S_x)))
    /\ last' = Call(1, "set_attribute", <<>>, NoVal, NoExc)
    /\ UNCHANGED otel
    /\ OtelFrame

Blocklist == {K_llm_request, K_llm_response}

\* an on_end that removes the first key of the blocklist only
SanitizerOnEndFirstKey(attrs) ==
    IF DOMAIN attrs = {} THEN attrs ELSE Del(attrs, K_llm_request)

\* VertexAISanitizer.on_end on the attributes of the span (del
\* span._attributes[key] on the attribute store the span shares with what is
\* handed to the processors)
SanitizerOnEnd(attrs) ==
    IF DOMAIN attrs = {} THEN attrs
    ELSE [key \in (DOMAIN attrs) \ Blocklist |-> attrs[key]]

\* the on_end of each processor of the provider, in registration order: the
\* sanitizer edits the span, a SimpleSpanProcessor exports at once, a
\* BatchSpanProcessor queues the span
RECURSIVE OnEnd(_, _, _, _, _)
OnEnd(w0, o0, procs, n, sp) ==
    Let(w0, LAMBDA w :
    Let(o0, LAMBDA o :
        IF n > Len(procs) THEN [w |-> w, o |-> o]
        ELSE IF procs[n].kind = "sanitizer"
             THEN OnEnd([w EXCEPT !.spans[sp].attrs = SanitizerOnEnd(@)], o, procs, n + 1, sp)
        ELSE IF procs[n].kind = "simple"
             THEN OnEnd(w, [o EXCEPT !.exported =
                               Append(@, [p |-> o.open.p, via |-> n, sp |-> sp,
                                          ended |-> o.open.attrs,
                                          attrs |-> w.spans[sp].attrs])],
                        procs, n + 1, sp)
        ELSE OnEnd(w, [o EXCEPT !.queue = Append(@, [p |-> o.open.p, via |-> n, sp |-> sp,
                                                     ended |-> o.open.attrs])],
                   procs, n + 1, sp)))

\* the end of the with block: span.end(), then the processors
OtelEndSpan ==
    /\ otel.open.sp # None
    /\ LET sp == otel.open.sp
           w1 == EndSpan(World, 1, sp)
           o1 == [otel EXCEPT !.open.attrs = w1.spans[sp].attrs]
           e == OnEnd(w1, o1, otel.providers[otel.open.p].procs, 1, sp)
       IN /\ Commit(e.w)
          /\ otel' = [e.o EXCEPT !.open = NoOtel.open]
    /\ last' = Call(1, "end_span", <<>>, NoVal, NoExc)
    /\ OtelFrame

\* the workers of the BatchSpanProcessors export what is queued, as one batch
\* in the order of arrival, with the attributes the spans have by then
OtelExportBatch ==
    /\ Len(otel.queue) > 0
    /\ otel' = [otel EXCEPT
                   !.queue = <<>>,
                   !.exported = @ \o [n \in DOMAIN otel.queue |->
                                         [p |-> otel.queue[n].p, via |-> otel.queue[n].via,
                                          sp |-> otel.queue[n].sp,
                                          ended |-> otel.queue[n].ended,
                                          attrs |-> spanObjs[otel.queue[n].sp].attrs]]]
    /\ last' = Call(1, "export", <<>>, NoVal, NoExc)
    /\ UNCHANGED ctxVars
    /\ OtelFrame

\* enable_console_tracing, enable_google_tracing, and whether the Cloud Trace
\* exporter is installed (which matters only when Google tracing is asked for)
ConfigureFlags ==
    {<<TRUE, FALSE, TRUE>>, <<FALSE, TRUE, TRUE>>, <<TRUE, TRUE, TRUE>>, <<FALSE, TRUE, FALSE>>}

NextOtel ==
    \/ \E flags \in ConfigureFlags : ConfigureOtel(flags[1], flags[2], flags[3])
    \/ \E prov \in {SdkProvider, NoOpProvider} : InstallProvider(prov)
    \/ ConfigureAdkTelemetry
    \/ \E procs \in TestProviders : NewProvider(procs)
    \/ \E p \in 1..MaxProviders : OtelStartSpan(p)
    \/ \E name \in SpanAttributes : OtelSetAttribute(name)
    \/ OtelEndSpan
    \/ OtelExportBatch

SpecOtel == Init /\ [][NextOtel]_vars

---------------------------------------------------------------------------
(* Claims about the tracer providers and the span processors *)

\* how many processors of a kind configure_otel has added to a provider
AddedByConfigure(prov, kind) ==
    Cardinality({n \in DOMAIN prov.procs : prov.procs[n] = Processor(kind, "configure_otel")})

SanitizerAhead(e) ==
    \E n \in 1..(e.via - 1) : otel.providers[e.p].procs[n].kind = "sanitizer"

\* C20: a span that ends under a provider on which VertexAISanitizer is
\* registered ahead of the exporting processor is exported without the
\* attributes gcp.vertex.agent.llm_request and gcp.vertex.agent.llm_response,
\* and with every other attribute of the span unchanged.
C20_ExportedSanitized ==
    \A i \in DOMAIN otel.exported :
        LET e == otel.exported[i]
        IN SanitizerAhead(e) =>
               e.attrs = [key \in (DOMAIN e.ended) \ Blocklist |-> e.ended[key]]

\* a span that ended with both blocked attributes and another one has been
\* exported by a processor registered behind the sanitizer
C20_Witness ==
    \E i \in DOMAIN otel.exported :
        LET e == otel.exported[i]
        IN /\ SanitizerAhead(e)
           /\ DOMAIN e.ended = SpanAttributes
           /\ DOMAIN e.attrs = {K_other_attribute}
           /\ e.attrs[K_other_attribute] = StrV(S_x)

---------------------------------------------------------------------------
(* otel_setup.py: the Cloud Logging handler and its GCPTraceFilter.  A      *)
(* handler of the root logger is [project]: the project id of its filter   *)
(* (<<>> is None).  A log record is [name, trace, span_id].                 *)
MaxHandlers == 2

S_google == <<"g", "o", "o", "g", "l", "e">>
S_opentelemetry == <<"o", "p", "e", "n", "t", "e", "l", "e", "m", "e", "t", "r", "y">>
S_urllib3 == <<"u", "r", "l", "l", "i", "b", "3">>
S_google_cloud_logging == <<"g", "o", "o", "g", "l", "e", ".", "c", "l", "o", "u", "d", ".", "l", "o", "g", "g", "i", "n", "g">>
S_opentelemetry_trace == <<"o", "p", "e", "n", "t", "e", "l", "e", "m", "e", "t", "r", "y", ".", "t", "r", "a", "c", "e">>
S_urllib3_connectionpool == <<"u", "r", "l", "l", "i", "b", "3", ".", "c", "o", "n", "n", "e", "c", "t", "i", "o", "n", "p", "o", "o", "l">>
S_adk_agentic_logging == <<"a", "d", "k", "_", "a", "g", "e", "n", "t", "i", "c", "_", "l", "o", "g", "g", "i", "n", "g">>
S_app_google == <<"a", "p", "p", ".", "g", "o", "o", "g", "l", "e">>

\* the prefixes of record.name.startswith(("google", "opentelemetry", "urllib3"))
LoopPrefixes == {S_google, S_opentelemetry, S_urllib3}
LoggerNames ==
    {S_google_cloud_logging, S_opentelemetry_trace, S_urllib3_connectionpool,
     S_adk_agentic_logging, S_app_google}

\* logging.LogRecord(name, ...)
LogRecord(name) == [name |-> name, trace |-> <<>>, span_id |-> <<>>]

\* a filter that drops the records of the named loggers only while a valid
\* span is current
FilterPassesOutsideSpan(sp, rec) ==
    ~(sp.valid /\ \E prefix \in LoopPrefixes : StartsWith(rec.name, prefix))

\* the value GCPTraceFilter.filter returns
FilterPasses(sp, rec) == ~\E prefix \in LoopPrefixes : StartsWith(rec.name, prefix)

\* GCPTraceFilter.filter(record) while sp is the current span: the record as
\* the filter leaves it, and the value returned
GCPTraceFilter(project_id, sp, rec) ==
    [rec |-> IF sp.valid
             THEN [rec EXCEPT !.trace = IF project_id # <<>>
                                        THEN S_projects \o project_id \o S_traces
                                                 \o HexPad(sp.tid, TraceIdWidth)
                                        ELSE HexPad(sp.tid, TraceIdWidth),
                              !.span_id = HexPad(sp.sid, SpanIdWidth)]
             ELSE rec,
     pass |-> FilterPasses(sp, rec)]

\* configure_cloud_logging(project_id): lib says whether google-cloud-logging
\* could be imported, clientOk whether Client(project=...) could be built
ConfigureCloudLogging(o, project_id, lib, clientOk) ==
    IF lib /\ clientOk
    THEN [o EXCEPT !.handlers = Append(@, [project |-> project_id])]
    ELSE o

\* configure_logging / configure_otel with enable_cloud_logging=True;
\* project_id is project_id or get_google_project_id()
ConfigureOtelCloud(console, google, gcp, project_id, lib, clientOk) ==
    /\ NeedsProvider(otel) => Len(otel.providers) < MaxProviders
    /\ (lib /\ clientOk) => Len(otel.handlers) < MaxHandlers
    /\ otel' = ConfigureCloudLogging(ConfigureTracing(console, google, gcp),
                                     project_id, lib, clientOk)
    /\ last' = Call(1, "configure_cloud", project_id, NoVal, NoExc)
    /\ UNCHANGED ctxVars
    /\ OtelFrame

\* Logger.callHandlers on the root logger: each handler in turn filters the
\* one record object and emits it when its filter passes it.  Returns, per
\* handler, what its filter returned and the record as it was then.
RECURSIVE CallHandlers(_, _, _, _)
CallHandlers(handlers, n, sp, rec) ==
    IF n > Len(handlers) THEN <<>>
    ELSE Let(GCPTraceFilter(handlers[n].project, sp, rec), LAMBDA f :
             <<f>> \o CallHandlers(handlers, n + 1, sp, f.rec))

\* a record of an enabled level is logged on the logger called name
\* (otel.records keeps the record logged last)
Log(name) ==
    /\ ops < MaxOps
    /\ Tick
    /\ otel' = [otel EXCEPT !.records =
                   <<[name |-> name, valid |-> CurrentSpan(World, 1).valid,
                      seen |-> CallHandlers(otel.handlers, 1, CurrentSpan(World, 1),
                                            LogRecord(name))]>>]
    /\ last' = Call(1, "log", name, NoVal, NoExc)
    /\ UNCHANGED <<ctxVars, spawned, own, cleared, fresh, httpVars, run>>

\* whether the two libraries are installed and the client can be built
CloudSetups == {<<TRUE, TRUE>>, <<TRUE, FALSE>>, <<FALSE, TRUE>>}

NextCloud ==
    \/ \E pid \in {<<>>, S_p}, s \in CloudSetups :
           ConfigureOtelCloud(TRUE, FALSE, TRUE, pid, s[1], s[2])
    \/ OtelStartSpan(1)
    \/ OtelEndSpan
    \/ \E name \in LoggerNames : Log(name)

SpecCloud == Init /\ [][NextCloud]_vars

---------------------------------------------------------------------------
(* Claims about the Cloud Logging handler *)

\* C21: GCPTraceFilter.filter rejects every log record whose logger name
\* starts with "google", "opentelemetry" or "urllib3" and accepts every other
\* record, whether or not a valid span is current.
C21_FilterLoopProtection ==
    \A i \in DOMAIN otel.records :
        \A n \in DOMAIN otel.records[i].seen :
            otel.records[i].seen[n].pass =
                (otel.records[i].name \notin
                     {S_google_cloud_logging, S_opentelemetry_trace, S_urllib3_connectionpool})

\* with two handlers installed and after other records, a record of
\* "urllib3.connectionpool" was dropped by both outside any span
C21_Witness ==
    /\ ops = MaxOps
    /\ Len(otel.records) = 1
    /\ otel.records[1].name = S_urllib3_connectionpool /\ ~otel.records[1].valid
    /\ Len(otel.records[1].seen) = 2
    /\ ~otel.records[1].seen[1].pass /\ ~otel.records[1].seen[2].pass
    /\ otel.records[1].seen[2].rec.trace = <<>>

\* C30: after any number of configure_logging(enable_cloud_logging=True)
\* calls, the root logger carries at most one Cloud Logging handler installed
\* by this library.
C30_OneCloudHandler == Len(otel.handlers) <= 1

---------------------------------------------------------------------------
(* Claims about the span of an instrumented run *)

\* An instrumented run whose body, or whose consumer between two chunks,
\* stores a plain number under "gen_ai"
WrapperAdds == {<<K_gen_ai, IntV(7)>>, <<K_ab, IntV(7)>>}

NextWrapper ==
    \/ \E mode \in RunnerModes, inp \in RunnerInputs :
           RunnerCall(mode, "recording", Agent("none", NoVal), inp)
    \/ \E result \in Chunks : RunnerReturns(result)
    \/ RunnerReturnsStream
    \/ \E exc \in RunnerExceptions : RunnerRaises(exc)
    \/ \E raw \in RawChunks : StreamNext(raw)
    \/ StreamEnds
    \/ StreamCloses
    \/ \E exc \in RunnerExceptions : StreamRaises(exc)
    \/ (InRunner /\ \E a \in WrapperAdds : Add(1, a[1], a[2]))

SpecWrapper == Init /\ [][NextWrapper]_vars

\* the consumer and the decorated function keep going: a step that can be
\* taken is eventually taken
SpecRunnerFair == Init /\ [][NextRunner]_vars /\ WF_vars(NextRunner)

\* the span the wrapper started has been ended
RunSpanEnded == run.span # None /\ spanObjs[run.span].ended

\* C22: every span started by instrument_runner is eventually ended once the
\* wrapped call has finished: after a direct result, after any exception
\* (task cancellation included), and for a streamed result once the consumer
\* has exhausted, closed or abandoned the stream.
C22_SpanEventuallyEnded == (run.pc = "done") ~> RunSpanEnded

\* C23: no span started by instrument_runner is ended more than once, on any
\* path: direct return, exception from the wrapped call, exception while
\* capturing metrics or mirroring attributes, stream exhausted, stream closed
\* early by the consumer, or stream failing mid-iteration.
C23_SpanEndedAtMostOnce == \A sp \in DOMAIN spanObjs : spanObjs[sp].ends <= 1

\* the decorated function returned a direct result, the capture of the
\* metrics raised, and the except branch ended the span
C23_Witness ==
    /\ run.pc = "done" /\ last.op = "return"
    /\ run.raised = NoExc /\ run.seen = AttributeErrorGet
    /\ spanObjs[run.span].ends = 1
    /\ spanObjs[run.span].status = "ERROR"

\* C24: a function wrapped by instrument_runner behaves toward its caller as
\* the unwrapped function does: the caller gets every chunk the stream
\* produced, and an exception only when the wrapped function or its stream
\* raised it, whatever the bucket contains.
C24_WrapperTransparent ==
    run.pc = "done" => (run.seen = run.raised /\ run.yielded = run.gave)

---------------------------------------------------------------------------
(* One thread serving several requests in a row *)
MaxServed == 2

\* the keys a handler writes; it stores the number of its request under them
ServeKeys == {K_id, K_ab}

InitServe ==
    /\ heap = <<>>
    /\ var = [t \in Tasks |-> None]
    /\ spawned = {1}
    /\ spanObjs = <<>>
    /\ curSpan = [t \in Tasks |-> None]
    /\ ops = 0
    /\ last = NoCall
    /\ own = [t \in Tasks |-> NoVal]
    /\ cleared = [t \in Tasks |-> FALSE]
    /\ fresh = [t \in Tasks |-> FALSE]
    /\ req = [Idle EXCEPT !.quota = MaxServed]
    /\ stdout = <<>>
    /\ logRecords = <<>>
    /\ run = NoRun
    /\ otel = NoOtel

NextServe ==
    \/ FastapiBegin("recording", S_p)
    \/ FastapiSendStart(OkStatus)
    \/ FastapiAppReturns
    \/ FlaskBefore(S_p)
    \/ FlaskAfter(OkStatus, NoExc)
    \/ FlaskTeardown
    \/ DjangoBegin(S_p)
    \/ DjangoReturns(OkStatus)
    \/ DjangoRaises(ValueErrorX)
    \/ (req.pc = "handler" /\ \E key \in ServeKeys : Add(1, key, IntV(req.n)))

SpecServe == InitServe /\ [][NextServe]_vars

\* C25: the record emitted for a request contains no key or value that was
\* added to the bucket during an earlier request served by the same thread:
\* what it holds under the handlers' keys was stored by the handler of this
\* request, and it carries an error and a severity other than "INFO" only when
\* this request raised.
C25_NoCarryOver ==
    req.pc = "done" =>
        \A i \in LinesOf(req.n) :
            LET doc == Emitted[i].doc
            IN /\ \A key \in ServeKeys : TreeGet(doc, Split(key)) \in {NoVal, IntV(req.n)}
               /\ req.handlerExc = NoExc =>
                      /\ K_error \notin DOMAIN doc.m
                      /\ TreeGet(doc, <<K_severity>>) = StrV(S_INFO)

\* the thread served a request that stored "id" and raised, then a request
\* whose handler stored "a.b" only and returned
C25_Witness ==
    /\ req.pc = "done" /\ req.n = 2 /\ req.handlerExc = NoExc
    /\ Len(Emitted) = 2
    /\ Emitted[1].n = 1 /\ TreeGet(Emitted[1].doc, <<K_id>>) = IntV(1)
    /\ K_error \in DOMAIN Emitted[1].doc.m
    /\ Emitted[2].n = 2 /\ TreeGet(Emitted[2].doc, <<K_id>>) = NoVal
    /\ TreeGet(Emitted[2].doc, Split(K_ab)) = IntV(2)

---------------------------------------------------------------------------
(* Claims about the emission step *)

\* C28: emitting the record does not modify the bucket: in every adapter,
\* get_all() returns the same keys and values immediately after the emission
\* step as immediately before it.
C28_EmitKeepsBucket ==
    req.pc = "done" =>
        \A i \in LinesOf(req.n) : Bucket(1) = Emitted[i].bucket

====
